---- MODULE Spec2Model ----
(***************************************************************************)
(* Authentication core of the Waffer / LocalOffers backend.                *)
(*                                                                         *)
(* The repository carries two implementations of the auth controller that  *)
(* the routes file mounts as '../controllers/authController':              *)
(*   - the Mongoose one (models/User.js, JWT minted by the controller),    *)
(*   - the Supabase one (Supabase Auth identity + public.users profile).   *)
(* The variable backend says which of the two is deployed; it is chosen in *)
(* Init and never changes.  Handlers are modelled at the granularity of    *)
(* their awaited store calls: a handler with several awaits is a request   *)
(* in flight whose steps interleave with the steps of other requests.      *)
(***************************************************************************)
EXTENDS Integers, Sequences, FiniteSets, TLC

VARIABLES
  backend,      \* "mongoose" | "supabase": the controller that is mounted
  users,        \* Mongoose: the users collection, a set of documents
  authUsers,    \* Supabase Auth: the identities of auth.users
  pgUsers,      \* Supabase: the rows of public.users
  nextUid,      \* Supabase Auth: the id the next identity gets
  clientSession,\* Supabase: the session held by the module-level client
  now,          \* Date.now(), in milliseconds
  rand,         \* number of crypto.randomBytes(32) values drawn so far
  inflight,     \* requests between two awaits: slot -> request record
  resp,         \* the response most recently sent
  redeemed,     \* history: raw reset tokens whose redemption succeeded
  initiated,    \* history: the Nafath ids nafathAuth answered "pending" for
  otps,         \* Supabase Auth: the email confirmation tokens outstanding
  sessions      \* Supabase Auth: the sessions handed out, by login or by mail

vars == <<backend, users, authUsers, pgUsers, nextUid, clientSession,
          now, rand, inflight, resp, redeemed, initiated, otps, sessions>>

mongoVars == <<users, now, rand, redeemed>>
supaVars == <<authUsers, pgUsers, nextUid, clientSession>>

(***************************************************************************)
(* Bounds of the model.                                                    *)
(***************************************************************************)
MaxUsers  == 2        \* documents the collection may hold
MaxRandom == 3        \* random tokens that may be drawn
MaxTicks  == 1        \* clock ticks
TickMs    == 600000   \* one clock tick: ten minutes
Slots     == {1, 2}     \* requests that may be in flight at once

(***************************************************************************)
(* Input domains.                                                          *)
(***************************************************************************)
Emails    == {"a@x.sa", "b@x.sa"}                  \* normalised addresses
RawEmails == Emails \cup {"A@x.sa"}                \* as typed by a client
Phones    == {"0500000001", "0500000002"}         \* canonical 05xxxxxxxx
RawPhones == Phones \cup {"+966500000001"}
Passwords == {"Passw0rd!", "N3wPassw0rd!"}
CRs       == {"1010000001", "1010000002"}          \* commercial registrations
UserTypes == {"customer", "shop", "productive_family"}

Undefined == {}
Some(v) == {v}
IsDefined(x) == x # {}
The(x) == CHOOSE v \in x : TRUE

\* express-validator normalizeEmail(): lower-cases the address.
normalizeEmail(e) == IF e = "A@x.sa" THEN "a@x.sa" ELSE e

\* ValidationUtils.validateSaudiPhone: normalises to 05xxxxxxxx
validateSaudiPhone(p) == IF p = "+966500000001" THEN "0500000001" ELSE p

\* ValidationUtils.validateEmail: trims and lower-cases
validateEmail(e) == IF e = "A@x.sa" THEN "a@x.sa" ELSE e

\* bcrypt.hash(password, salt) and bcrypt.compare(candidate, hash)
bcryptHash(pw) == [bcrypt |-> pw]
bcryptCompare(candidate, hash) == hash.bcrypt = candidate

\* a digest that is the same for every token
sha256Constant(t) == 1000
\* crypto.createHash('sha256').update(t).digest('hex'): hex strings are
\* numbers here, the digest of t is a number no raw token and no other
\* digest equals.
sha256(t) == t + 1000

NoBusinessInfo == [businessName |-> Undefined, commercialRegistration |-> Undefined]
NoFamilyInfo == [familySize |-> Undefined]

Idle == [op |-> "idle"]
NoGhost == [case |-> "none"]
NoResponse == [op |-> "none", status |-> 0, body |-> [success |-> TRUE],
               ghost |-> NoGhost]

(***************************************************************************)
(* Route-level validation (express-validator chains run before the         *)
(* handler) and the error middleware.                                      *)
(***************************************************************************)
\* a JSON value of familyInfo.familySize: the number 4, the string "4"
Four == [typeof |-> "number", value |-> 4]
FourAsString == [typeof |-> "string", value |-> 4]

\* the strings of the input domains that match /^(\+966|0)?[5][0-9]{8}$/
matchesSaudiPhone(p) == p \in {"0500000001", "0500000002", "+966500000001"}

\* handleValidationErrors: the 400 sent when a chain reported an error;
\* errors.array() is kept as the set of the paths in error
ValidationFailedBare(errors) ==
  [status |-> 400,
   body |-> [success |-> FALSE, message |-> "Validation failed", errors |-> {}]]
ValidationFailed(errors) ==
  [status |-> 400,
   body |-> [success |-> FALSE, message |-> "Validation failed", errors |-> errors]]

\* validateUserRegistration / validateShopRegistration /
\* validateFamilyRegistration: the paths whose chain reports an error.
\* The e-mail and password of the input domains satisfy their chains;
\* isInt accepts the string "4" as it accepts the number 4.
validationResult(kind, body) ==
  {f \in {"phone"} : ~matchesSaudiPhone(body.phone)}
  \cup {f \in {"businessInfo.businessName"} :
          kind # "customer" /\ ~IsDefined(body.businessInfo.businessName)}
  \cup {f \in {"businessInfo.commercialRegistration"} :
          kind = "shop" /\ ~IsDefined(body.businessInfo.commercialRegistration)}
  \cup {f \in {"familyInfo.familySize"} :
          kind = "productive_family" /\ ~IsDefined(body.familyInfo.familySize)}

\* TRUE when no chain reports an error
validateRegistration(kind, body) == validationResult(kind, body) = {}

\* ValidationUtils.validateRegistrationData(data, userType).errors: the
\* commercial registration is optional here, the family size must be a number
validateRegistrationData(kind, body) ==
  {e \in {"Please provide a valid Saudi phone number (05xxxxxxxx)"} :
     ~matchesSaudiPhone(body.phone)}
  \cup {e \in {"Business name is required"} :
          kind = "shop" /\ ~IsDefined(body.businessInfo.businessName)}
  \cup {e \in {"Family size is required and must be a number"} :
          /\ kind = "productive_family"
          /\ \/ ~IsDefined(body.familyInfo.familySize)
             \/ The(body.familyInfo.familySize).typeof # "number"}

\* the 400 of a register handler whose validation.isValid is false
ValidationError400(errors) ==
  [status |-> 400,
   body |-> [success |-> FALSE, message |-> "Validation failed",
             errorCode |-> "VALIDATION_ERROR", errors |-> errors]]

\* errorHandler(err, req, res, next): err is [code, name, message, details,
\* statusCode]; the multer and rate-limit cases concern no error raised here
errorHandler(err) ==
  LET e1 == IF err.code = "23505"
              THEN [message |-> IF "email" \in err.details THEN "Email already exists"
                                ELSE IF "phone" \in err.details THEN "Phone number already exists"
                                ELSE IF "commercial_registration" \in err.details
                                  THEN "Commercial registration number already exists"
                                ELSE "Duplicate field value entered",
                    statusCode |-> Some(409)]
              ELSE [message |-> err.message, statusCode |-> err.statusCode]
      e2 == IF err.code = "23502"
              THEN [message |-> "Required field is missing", statusCode |-> Some(400)]
              ELSE e1
      e3 == IF err.message = "Invalid login credentials"
              THEN [message |-> "Invalid login credentials", statusCode |-> Some(401)]
              ELSE e2
      e4 == IF err.name = "JsonWebTokenError"
              THEN [message |-> "Invalid token", statusCode |-> Some(401)]
              ELSE e3
      e5 == IF err.name = "TokenExpiredError"
              THEN [message |-> "Token expired", statusCode |-> Some(401)]
              ELSE e4
  IN [status |-> IF IsDefined(e5.statusCode) THEN The(e5.statusCode) ELSE 500,
      body |-> [success |-> FALSE, message |-> e5.message]]

\* What the MongoDB driver throws on a unique-index violation
E11000 == [code |-> "11000", name |-> "MongoServerError",
           message |-> "E11000 duplicate key error", details |-> {},
           statusCode |-> Undefined]
\* What Mongoose throws when a required path is missing
ValidationError == [code |-> "", name |-> "ValidationError",
                    message |-> "User validation failed", details |-> {},
                    statusCode |-> Undefined]

\* What PostgREST returns for .single() on no row or on several rows
PGRST116 == [code |-> "PGRST116", name |-> "PostgrestError",
             message |-> "JSON object requested, multiple (or no) rows returned",
             details |-> {}, statusCode |-> Undefined]

(***************************************************************************)
(* Mongoose backend: models/User.js                                        *)
(***************************************************************************)
\* Model.findOne(filter), hits being the documents the filter matches: the
\* first of them in _id order, if any
findOne(hits) ==
  IF hits = {} THEN Undefined
  ELSE Some(CHOOSE d \in hits : \A o \in hits : d._id <= o._id)

findById(coll, id) == findOne({d \in coll : d._id = id})

\* The unique indexes of userSchema: email; nafathId and
\* businessInfo.commercialRegistration (both sparse)
violatesUniqueIndex(coll, doc) ==
  \E d \in coll :
     /\ d._id # doc._id
     /\ \/ d.email = doc.email
        \/ IsDefined(doc.nafathId) /\ d.nafathId = doc.nafathId
        \/ /\ IsDefined(doc.businessInfo.commercialRegistration)
           /\ d.businessInfo.commercialRegistration
                = doc.businessInfo.commercialRegistration

\* The `required` validators of userSchema
passesSchemaValidation(doc) ==
  /\ IsDefined(doc.password)
  /\ doc.userType \in {"shop", "productive_family"}
       => IsDefined(doc.businessInfo.businessName)
  /\ doc.userType = "shop" => IsDefined(doc.businessInfo.commercialRegistration)
  /\ doc.userType = "productive_family" => IsDefined(doc.familyInfo.familySize)

\* the cast of a path declared Number: the string "4" is stored as 4
castNumber(x) == {[v EXCEPT !.typeof = "number"] : v \in x}

\* new User(fields) with the schema defaults; pre('save') hashes the password
newUser(id, fields) ==
  [_id |-> id,
   email |-> fields.email,
   phone |-> fields.phone,
   password |-> IF IsDefined(fields.password)
                  THEN Some(bcryptHash(The(fields.password))) ELSE Undefined,
   userType |-> fields.userType,
   nafathId |-> fields.nafathId,
   isNafathVerified |-> fields.isNafathVerified,
   isActive |-> TRUE,
   isVerified |-> fields.isVerified,
   verificationToken |-> Undefined,
   resetPasswordToken |-> Undefined,
   resetPasswordExpire |-> Undefined,
   businessInfo |-> fields.businessInfo,
   familyInfo |-> [familySize |-> castNumber(fields.familyInfo.familySize)]]

\* _id of the next inserted document
nextObjectId(coll) == Cardinality(coll) + 1

\* document.save(): writes the modified paths of the document of that _id
savePaths(coll, id, changes) ==
  {IF d._id = id
     THEN [f \in DOMAIN d |-> IF f \in DOMAIN changes THEN changes[f] ELSE d[f]]
     ELSE d : d \in coll}

\* the in-memory document after the same assignments
withPaths(doc, changes) ==
  [f \in DOMAIN doc |-> IF f \in DOMAIN changes THEN changes[f] ELSE doc[f]]

\* userSchema.methods.comparePassword
comparePassword(user, candidate) ==
  bcryptCompare(candidate, The(user.password))

\* jwt.sign({ id }, JWT_SECRET)
generateToken(id) == [sub |-> id]

\* sendTokenResponse(user, statusCode, res), Mongoose controller
sendTokenResponseM(user, statusCode) ==
  [status |-> statusCode,
   body |-> [success |-> TRUE,
             token |-> generateToken(user._id),
             user |-> [id |-> user._id,
                       email |-> user.email,
                       phone |-> user.phone,
                       userType |-> user.userType,
                       isVerified |-> user.isVerified,
                       isNafathVerified |-> user.isNafathVerified,
                       businessInfo |-> user.businessInfo,
                       familyInfo |-> user.familyInfo]]]

\* res.json(user) of a Mongoose document: every path that is set, except
\* the ones the schema declares select: false (password)
toJSON(user) ==
  LET paths == {f \in DOMAIN user :
                  /\ f # "password"
                  /\ f \in {"nafathId", "verificationToken", "resetPasswordToken",
                             "resetPasswordExpire"} => IsDefined(user[f])}
  IN [f \in paths |-> user[f]]

(***************************************************************************)
(* Request plumbing                                                        *)
(***************************************************************************)
\* the response sent, with history of what the request was (ghost)
Respond(op, ghost, r) ==
  [op |-> op, status |-> r.status, body |-> r.body, ghost |-> ghost]

Plain(statusCode, ok, msg) ==
  [status |-> statusCode, body |-> [success |-> ok, message |-> msg]]

\* the last step of a request in flight
Finish(s, op, ghost, r) ==
  /\ resp' = Respond(op, ghost, r)
  /\ inflight' = [inflight EXCEPT ![s] = Idle]

\* a handler that answers within one step
Answer(op, ghost, r) ==
  /\ resp' = Respond(op, ghost, r)
  /\ UNCHANGED inflight

\* a new request takes the first free slot
FreeSlot(s) ==
  /\ inflight[s] = Idle
  /\ \A o \in Slots : inflight[o] = Idle => s <= o

noun(kind) == CASE kind = "customer" -> "User"
                [] kind = "shop" -> "Shop"
                [] kind = "productive_family" -> "Productive family"

(***************************************************************************)
(* Mongoose controller: register, registerShop, registerFamily             *)
(***************************************************************************)
\* the documents the `existingUser` query of the three handlers matches;
\* findOne without a sort returns one of them
existingUsersM(coll, kind, body) ==
  {d \in coll :
     \/ d.email = body.email
     \/ d.phone = body.phone
     \/ /\ kind = "shop"
        /\ IsDefined(body.businessInfo.commercialRegistration)
        /\ d.businessInfo.commercialRegistration
             = body.businessInfo.commercialRegistration}

\* the field the 409 names
conflictFieldM(kind, existingUser, body) ==
  IF kind = "shop"
    THEN IF existingUser.businessInfo.commercialRegistration
              = body.businessInfo.commercialRegistration
           THEN "commercial registration"
         ELSE IF existingUser.phone = body.phone THEN "phone"
         ELSE "email"
    ELSE IF existingUser.email = body.email THEN "email" ELSE "phone"

conflictResponseM(kind, field) ==
  Plain(409, FALSE, noun(kind) \o " with this " \o field \o " already exists")

\* history: what the store held when the request was checked; a phone is
\* held when a profile has the same number, however it is spelled
registerGhostM(kind, body) ==
  [case |-> "register", kind |-> kind, stage |-> "check",
   valid |-> validateRegistration(kind, body),
   emailHeld |-> \E d \in users : d.email = body.email,
   phoneHeld |-> \E d \in users :
                   validateSaudiPhone(d.phone) = validateSaudiPhone(body.phone),
   crHeld |-> /\ IsDefined(body.businessInfo.commercialRegistration)
              /\ \E d \in users : d.businessInfo.commercialRegistration
                                     = body.businessInfo.commercialRegistration,
   identityHeld |-> FALSE,
   lostRaceOn |-> {}]

\* history: the fields another registration took since the check
lostRaceM(ghost, body) ==
  {f \in {"email"} : ~ghost.emailHeld /\ \E d \in users : d.email = body.email}
  \cup
  {f \in {"phone"} :
     /\ ~ghost.phoneHeld
     /\ \E d \in users : validateSaudiPhone(d.phone) = validateSaudiPhone(body.phone)}

\* route validation, then the handler up to its first store write
RegisterCheckM(s, kind, raw) ==
  LET body == [raw EXCEPT !.email = normalizeEmail(raw.email)]
      ghost == registerGhostM(kind, body)
      existingUsers == existingUsersM(users, kind, body)
  IN /\ backend = "mongoose"
     /\ FreeSlot(s)
     /\ IF ~validateRegistration(kind, body)
          THEN Answer("register", ghost, ValidationFailed(validationResult(kind, body)))
        ELSE IF existingUsers # {}
          THEN \E existingUser \in existingUsers :
                 Answer("register", ghost,
                        conflictResponseM(kind, conflictFieldM(kind, existingUser, body)))
        ELSE /\ inflight' = [inflight EXCEPT ![s] =
                   [op |-> "register", pc |-> "create", kind |-> kind,
                    body |-> body, ghost |-> ghost]]
             /\ UNCHANGED resp
     /\ UNCHANGED <<backend, initiated, otps, sessions, mongoVars, supaVars>>

\* await User.create({...})
RegisterCreateM(s) ==
  LET r == inflight[s]
      ghost == [r.ghost EXCEPT !.stage = "create",
                               !.lostRaceOn = lostRaceM(r.ghost, r.body)]
      doc == newUser(nextObjectId(users),
               [email |-> r.body.email, phone |-> r.body.phone,
                password |-> Some(r.body.password), userType |-> r.kind,
                nafathId |-> Undefined, isNafathVerified |-> FALSE,
                isVerified |-> FALSE,
                businessInfo |-> r.body.businessInfo,
                familyInfo |-> r.body.familyInfo])
  IN /\ backend = "mongoose"
     /\ r.op = "register" /\ r.pc = "create"
     /\ IF ~passesSchemaValidation(doc)
          THEN Finish(s, "register", ghost, errorHandler(ValidationError))
               /\ UNCHANGED users
        ELSE IF violatesUniqueIndex(users, doc)
          THEN Finish(s, "register", ghost, errorHandler(E11000))
               /\ UNCHANGED users
        ELSE /\ Cardinality(users) < MaxUsers
             /\ users' = users \cup {doc}
             /\ inflight' = [inflight EXCEPT ![s] =
                   [op |-> "register", pc |-> "save", kind |-> r.kind,
                    body |-> r.body, ghost |-> ghost, user |-> doc]]
             /\ UNCHANGED resp
     /\ UNCHANGED <<backend, initiated, otps, sessions, now, rand, redeemed, supaVars>>

\* user.generateVerificationToken(); await user.save(); sendTokenResponse
RegisterSaveM(s) ==
  LET r == inflight[s]
      ghost == [r.ghost EXCEPT !.stage = "save"]
      token == rand + 1
      changes == [verificationToken |-> Some(token)]
  IN /\ backend = "mongoose"
     /\ r.op = "register" /\ r.pc = "save"
     /\ rand < MaxRandom
     /\ rand' = token
     /\ users' = savePaths(users, r.user._id, changes)
     /\ Finish(s, "register", ghost, sendTokenResponseM(withPaths(r.user, changes), 201))
     /\ UNCHANGED <<backend, initiated, otps, sessions, now, redeemed, supaVars>>

(***************************************************************************)
(* Mongoose controller: login, getMe                                       *)
(***************************************************************************)
InvalidCredentials == Plain(401, FALSE, "Invalid credentials")

\* a login that tells an unknown address from a wrong password
loginRevealingM(coll, body) ==
  LET user == findOne({d \in coll : d.email = body.email})
  IN IF ~IsDefined(user) THEN Plain(404, FALSE, "User not found")
     ELSE IF ~comparePassword(The(user), body.password) THEN InvalidCredentials
     ELSE sendTokenResponseM(The(user), 200)

loginM(coll, body) ==
  LET user == findOne({d \in coll : d.email = body.email})
  IN IF ~IsDefined(user) THEN InvalidCredentials
     ELSE IF ~comparePassword(The(user), body.password) THEN InvalidCredentials
     ELSE IF ~The(user).isActive THEN Plain(401, FALSE, "Account is deactivated")
     ELSE sendTokenResponseM(The(user), 200)

\* history: why a login may fail
loginGhostM(coll, body) ==
  [case |-> IF ~\E d \in coll : d.email = body.email THEN "noSuchEmail"
            ELSE IF \E d \in coll : /\ d.email = body.email
                                     /\ d.password # Some(bcryptHash(body.password))
              THEN "wrongPassword"
            ELSE "credentialsOk",
   active |-> \A d \in coll : d.email = body.email => d.isActive,
   issued |-> "token" \in DOMAIN loginM(coll, body).body]

\* isActive set to false: no handler of the repository writes the path; the
\* login and protect read it, so the store is written from outside
DeactivateM(id) ==
  /\ backend = "mongoose"
  /\ \E d \in users : d._id = id /\ d.isActive
  /\ users' = savePaths(users, id, [isActive |-> FALSE])
  /\ UNCHANGED <<backend, initiated, otps, sessions, now, rand, redeemed, supaVars, inflight, resp>>

LoginM(raw) ==
  LET body == [raw EXCEPT !.email = normalizeEmail(raw.email)]
  IN /\ backend = "mongoose"
     /\ Answer("login", loginGhostM(users, body), loginM(users, body))
     /\ UNCHANGED <<backend, initiated, otps, sessions, mongoVars, supaVars>>

\* getMe behind protect: id is the subject of the verified bearer token
getMeM(coll, id) ==
  [status |-> 200,
   body |-> [success |-> TRUE, user |-> toJSON(The(findById(coll, id)))]]

GetMeM(id) ==
  /\ backend = "mongoose"
  /\ \E d \in users : d._id = id /\ d.isActive
  /\ Answer("getMe", [case |-> "getMe"], getMeM(users, id))
  /\ UNCHANGED <<backend, initiated, otps, sessions, mongoVars, supaVars>>

(***************************************************************************)
(* Mongoose controller: forgotPassword, resetPassword, updatePassword      *)
(***************************************************************************)
\* 10 * 60 * 1000
ResetExpireMs == 600000

\* a method that stores the raw token instead of its digest
generateRawResetToken(resetToken, dateNow) ==
  [resetPasswordToken |-> Some(resetToken),
   resetPasswordExpire |-> Some(dateNow + ResetExpireMs)]
\* userSchema.methods.generateResetPasswordToken: the fields it assigns
generateResetPasswordToken(resetToken, dateNow) ==
  [resetPasswordToken |-> Some(sha256(resetToken)),
   resetPasswordExpire |-> Some(dateNow + ResetExpireMs)]

ForgotPasswordM(rawEmail) ==
  LET email == normalizeEmail(rawEmail)
      user == findOne({d \in users : d.email = email})
      resetToken == rand + 1
  IN /\ backend = "mongoose"
     /\ IF ~IsDefined(user)
          THEN /\ Answer("forgotPassword", [case |-> "noSuchEmail"],
                         Plain(404, FALSE, "User not found"))
               /\ UNCHANGED <<users, rand>>
        ELSE /\ rand < MaxRandom
             /\ rand' = resetToken
             /\ users' = savePaths(users, The(user)._id,
                            generateResetPasswordToken(resetToken, now))
             /\ Answer("forgotPassword", [case |-> "sent", token |-> resetToken],
                       Plain(200, TRUE, "Reset password email sent"))
     /\ UNCHANGED <<backend, initiated, otps, sessions, now, redeemed, supaVars>>

InvalidOrExpiredToken == Plain(400, FALSE, "Invalid or expired token")

\* a lookup by digest alone, whatever the stored expiry
findByResetTokenOnly(coll, resettoken, dateNow) ==
  findOne({d \in coll : d.resetPasswordToken = Some(sha256(resettoken))})

\* the query of resetPassword: stored digest equal and expiry in the future
findByResetToken(coll, resettoken, dateNow) ==
  findOne({d \in coll :
             /\ d.resetPasswordToken = Some(sha256(resettoken))
             /\ IsDefined(d.resetPasswordExpire)
             /\ The(d.resetPasswordExpire) > dateNow})

\* history: what the presented token is, judged from the stored fields
resetGhostM(coll, resettoken, dateNow) ==
  [case |-> IF resettoken \in redeemed THEN "redeemed"
            ELSE IF ~\E d \in coll : d.resetPasswordToken = Some(sha256(resettoken))
              THEN "bogus"
            ELSE IF \E d \in coll : /\ d.resetPasswordToken = Some(sha256(resettoken))
                                     /\ The(d.resetPasswordExpire) <= dateNow
              THEN "expired"
            ELSE "valid",
   token |-> resettoken]

\* hash the token, await User.findOne(...)
ResetFindM(s, resettoken, password) ==
  LET user == findByResetToken(users, resettoken, now)
      ghost == resetGhostM(users, resettoken, now)
  IN /\ backend = "mongoose"
     /\ FreeSlot(s)
     /\ IF ~IsDefined(user)
          THEN Answer("resetPassword", ghost, InvalidOrExpiredToken)
        ELSE /\ inflight' = [inflight EXCEPT ![s] =
                   [op |-> "resetPassword", pc |-> "save", user |-> The(user),
                    password |-> password, ghost |-> ghost]]
             /\ UNCHANGED resp
     /\ UNCHANGED <<backend, initiated, otps, sessions, mongoVars, supaVars>>

\* a redemption that sets the password and leaves the token fields alone
resetKeepingToken(user, password) ==
  [password |-> Some(bcryptHash(password)),
   resetPasswordToken |-> user.resetPasswordToken,
   resetPasswordExpire |-> user.resetPasswordExpire]

\* user.password = req.body.password; both token fields = undefined
resetAssignments(user, password) ==
  [password |-> Some(bcryptHash(password)),
   resetPasswordToken |-> Undefined,
   resetPasswordExpire |-> Undefined]

\* the assignments, then await user.save() and sendTokenResponse
ResetSaveM(s) ==
  LET r == inflight[s]
      changes == resetAssignments(r.user, r.password)
  IN /\ backend = "mongoose"
     /\ r.op = "resetPassword" /\ r.pc = "save"
     /\ users' = savePaths(users, r.user._id, changes)
     /\ redeemed' = redeemed \cup {r.ghost.token}
     /\ Finish(s, "resetPassword", r.ghost,
               sendTokenResponseM(withPaths(r.user, changes), 200))
     /\ UNCHANGED <<backend, initiated, otps, sessions, now, rand, supaVars>>

\* updatePassword behind protect: id is the subject of the bearer token
UpdatePasswordM(id, currentPassword, password) ==
  LET user == findById(users, id)
  IN /\ backend = "mongoose"
     /\ IsDefined(user) /\ The(user).isActive
     /\ IF ~comparePassword(The(user), currentPassword)
          THEN /\ Answer("updatePassword", [case |-> "wrongCurrent"],
                         Plain(401, FALSE, "Current password is incorrect"))
               /\ UNCHANGED users
        ELSE /\ users' = savePaths(users, id, [password |-> Some(bcryptHash(password))])
             /\ Answer("updatePassword", [case |-> "updated"],
                       sendTokenResponseM(
                         withPaths(The(user), [password |-> Some(bcryptHash(password))]), 200))
     /\ UNCHANGED <<backend, initiated, otps, sessions, now, rand, redeemed, supaVars>>

(***************************************************************************)
(* Mongoose controller: verifyEmail, resendVerification                    *)
(***************************************************************************)
\* a verifyEmail that leaves the token in place
verifyKeepingToken(user) == [isVerified |-> TRUE]
\* user.isVerified = true; user.verificationToken = undefined
verifyAssignments(user) == [isVerified |-> TRUE, verificationToken |-> Undefined]

VerifyEmailM(token) ==
  LET user == findOne({d \in users : d.verificationToken = Some(token)})
  IN /\ backend = "mongoose"
     /\ IF ~IsDefined(user)
          THEN /\ Answer("verifyEmail", [case |-> "noSuchToken", token |-> token],
                         Plain(400, FALSE, "Invalid verification token"))
               /\ UNCHANGED users
        ELSE /\ users' = savePaths(users, The(user)._id, verifyAssignments(The(user)))
             /\ Answer("verifyEmail", [case |-> "verified", token |-> token],
                       Plain(200, TRUE, "Email verified successfully"))
     /\ UNCHANGED <<backend, initiated, otps, sessions, now, rand, redeemed, supaVars>>

ResendVerificationM(email) ==
  LET user == findOne({d \in users : d.email = email})
      token == rand + 1
  IN /\ backend = "mongoose"
     /\ IF ~IsDefined(user)
          THEN /\ Answer("resendVerification", [case |-> "noSuchEmail", email |-> email],
                         Plain(404, FALSE, "User not found"))
               /\ UNCHANGED <<users, rand>>
        ELSE IF The(user).isVerified
          THEN /\ Answer("resendVerification", [case |-> "alreadyVerified", email |-> email],
                         Plain(400, FALSE, "Email already verified"))
               /\ UNCHANGED <<users, rand>>
        ELSE /\ rand < MaxRandom
             /\ rand' = token
             /\ users' = savePaths(users, The(user)._id,
                            [verificationToken |-> Some(token)])
             /\ Answer("resendVerification", [case |-> "sent", email |-> email],
                       Plain(200, TRUE, "Verification email sent"))
     /\ UNCHANGED <<backend, initiated, otps, sessions, now, redeemed, supaVars>>

(***************************************************************************)
(* Mongoose controller: nafathCallback; user controller: updateProfile     *)
(***************************************************************************)
\* history: what the callback was asked and what the store held
nafathGhostM(nafathId, verified, userData) ==
  [case |-> "nafathCallback", verified |-> verified, nafathId |-> nafathId,
   pending |-> nafathId \in initiated,
   idHeld |-> \E d \in users : d.nafathId = Some(nafathId),
   emailHeld |-> \E d \in users : d.email = userData.email,
   profiles |-> Cardinality(users)]

\* the document the callback creates for an address it does not know
nafathUser(id, nafathId, userData) ==
  newUser(id,
    [email |-> userData.email, phone |-> userData.phone,
     password |-> Undefined, userType |-> "customer",
     nafathId |-> Some(nafathId), isNafathVerified |-> TRUE, isVerified |-> TRUE,
     businessInfo |-> NoBusinessInfo, familyInfo |-> NoFamilyInfo])

\* const { nafathId, userData } = req.body; await User.findOne({ email });
\* for an unknown address await User.create({...})
NafathFindM(s, nafathId, verified, userData) ==
  LET ghost == nafathGhostM(nafathId, verified, userData)
      user == findOne({d \in users : d.email = userData.email})
      doc == nafathUser(nextObjectId(users), nafathId, userData)
  IN /\ backend = "mongoose"
     /\ FreeSlot(s)
     /\ IF IsDefined(user)
          THEN /\ inflight' = [inflight EXCEPT ![s] =
                     [op |-> "nafathCallback", pc |-> "save", user |-> The(user),
                      nafathId |-> nafathId, ghost |-> ghost]]
               /\ UNCHANGED <<users, resp>>
        ELSE IF ~passesSchemaValidation(doc)
          THEN /\ Answer("nafathCallback", ghost, errorHandler(ValidationError))
               /\ UNCHANGED users
        ELSE IF violatesUniqueIndex(users, doc)
          THEN /\ Answer("nafathCallback", ghost, errorHandler(E11000))
               /\ UNCHANGED users
        ELSE /\ Cardinality(users) < MaxUsers
             /\ users' = users \cup {doc}
             /\ Answer("nafathCallback", ghost, sendTokenResponseM(doc, 200))
     /\ UNCHANGED <<backend, initiated, otps, sessions, now, rand, redeemed, supaVars>>

\* user.nafathId = nafathId; both flags = true; await user.save()
NafathSaveM(s) ==
  LET r == inflight[s]
      changes == [nafathId |-> Some(r.nafathId), isNafathVerified |-> TRUE,
                  isVerified |-> TRUE]
      saved == withPaths(r.user, changes)
  IN /\ backend = "mongoose"
     /\ r.op = "nafathCallback" /\ r.pc = "save"
     /\ IF violatesUniqueIndex(users, saved)
          THEN /\ Finish(s, "nafathCallback", r.ghost, errorHandler(E11000))
               /\ UNCHANGED users
        ELSE /\ users' = savePaths(users, r.user._id, changes)
             /\ Finish(s, "nafathCallback", r.ghost, sendTokenResponseM(saved, 200))
     /\ UNCHANGED <<backend, initiated, otps, sessions, now, rand, redeemed, supaVars>>

\* User.findByIdAndUpdate(req.user.id, {email, phone}, {runValidators: true})
\* behind protect; the answer carries the document without its password
UpdateProfileM(id, fieldsToUpdate) ==
  LET user == findById(users, id)
      updated == withPaths(The(user), fieldsToUpdate)
  IN /\ backend = "mongoose"
     /\ IsDefined(user) /\ The(user).isActive
     /\ IF violatesUniqueIndex(users, updated)
          THEN /\ Answer("updateProfile", [case |-> "updateProfile"], errorHandler(E11000))
               /\ UNCHANGED users
        ELSE /\ users' = savePaths(users, id, fieldsToUpdate)
             /\ Answer("updateProfile", [case |-> "updateProfile"],
                       [status |-> 200,
                        body |-> [success |-> TRUE, data |-> toJSON(updated)]])
     /\ UNCHANGED <<backend, initiated, otps, sessions, now, rand, redeemed, supaVars>>

(***************************************************************************)
(* Supabase backend: the Auth service, the public.users table              *)
(***************************************************************************)
\* sanitizedData of the three register handlers
sanitizedData(raw) ==
  [raw EXCEPT !.email = validateEmail(raw.email),
              !.phone = validateSaudiPhone(raw.phone)]

\* supabase.auth.signUp: TRUE when the service refuses the address because
\* an identity already holds it
signUpRefused(identities, email) == \E a \in identities : a.email = email

\* supabase.auth.signInWithPassword: the identity signed in, if any
signInWithPassword(identities, email, password) ==
  LET hits == {a \in identities : a.email = email /\ a.password = password}
  IN IF hits = {} THEN Undefined ELSE Some(CHOOSE a \in hits : TRUE)

\* a row of public.users as an insert builds it; is_verified takes the
\* column default FALSE when the insert does not name it, a column without
\* a default is null
newRow(id, fields) ==
  [id |-> id,
   email |-> fields.email,
   phone |-> fields.phone,
   password_hash |-> fields.password_hash,
   user_type |-> fields.user_type,
   is_verified |-> IF IsDefined(fields.is_verified) THEN The(fields.is_verified) ELSE FALSE,
   is_nafath_verified |-> fields.is_nafath_verified,
   nafath_id |-> fields.nafath_id,
   is_active |-> fields.is_active,
   business_name |-> fields.business_name,
   commercial_registration |-> fields.commercial_registration,
   family_size |-> fields.family_size]

\* the constraint an insert violates, if any: the primary key and the
\* UNIQUE on email (23505), the reference to auth.users (23503)
insertError(rows, identities, row) ==
  IF \E r \in rows : r.id = row.id \/ r.email = row.email THEN Some("23505")
  ELSE IF ~\E a \in identities : a.id = row.id THEN Some("23503")
  ELSE Undefined

\* sendTokenResponse(user, session, statusCode, res), Supabase controller
sendTokenResponseS(user, session, statusCode) ==
  [status |-> statusCode,
   body |-> [success |-> TRUE,
             session |-> session,
             user |-> [id |-> user.id,
                       email |-> user.email,
                       phone |-> user.phone,
                       user_type |-> user.user_type,
                       is_verified |-> user.is_verified,
                       is_nafath_verified |-> user.is_nafath_verified,
                       business_name |-> user.business_name,
                       family_size |-> user.family_size]]]

\* a response with an errorCode
Coded(statusCode, msg, errorCode) ==
  [status |-> statusCode,
   body |-> [success |-> FALSE, message |-> msg, errorCode |-> errorCode]]

(***************************************************************************)
(* Supabase controller: register, registerShop, registerFamily             *)
(***************************************************************************)
\* the rows the `existingUsers` query returns
existingUsersS(rows, data) ==
  {r \in rows : r.email = data.email \/ r.phone = data.phone}

conflictFieldS(existingUser, data) ==
  IF existingUser.email = data.email THEN "email" ELSE "phone"

conflictResponseS(kind, field) ==
  LET msg == noun(kind) \o " with this " \o field \o " already exists"
  IN IF kind = "customer"
       THEN [status |-> 409,
             body |-> [success |-> FALSE, message |-> msg,
                       errorCode |-> "USER_ALREADY_EXISTS", conflictField |-> field]]
       ELSE [status |-> 409,
             body |-> [success |-> FALSE, message |-> msg,
                       errorCode |-> IF kind = "shop" THEN "DUPLICATE_SHOP_DATA"
                                     ELSE "DUPLICATE_FAMILY_DATA",
                       field |-> field]]

\* history: what the table held when the request was checked
registerGhostS(kind, raw, data) ==
  [case |-> "register", kind |-> kind, stage |-> "check",
   valid |-> validateRegistration(kind, raw)
               /\ validateRegistrationData(kind, raw) = {},
   emailHeld |-> \E r \in pgUsers : r.email = data.email,
   phoneHeld |-> \E r \in pgUsers : r.phone = data.phone,
   crHeld |-> /\ IsDefined(data.businessInfo.commercialRegistration)
              /\ \E r \in pgUsers : r.commercial_registration
                                       = data.businessInfo.commercialRegistration,
   identityHeld |-> \E a \in authUsers : a.email = data.email,
   lostRaceOn |-> {},
   identity |-> 0, fault |-> "none", cleanup |-> "none"]

\* history: the fields another registration took since the check; own is
\* the id of the request's own identity (0 before it has one)
lostRaceS(ghost, data, own) ==
  {f \in {"email"} :
     \/ ~ghost.emailHeld /\ \E r \in pgUsers : r.id # own /\ r.email = data.email
     \/ ~ghost.identityHeld /\ \E a \in authUsers : a.id # own /\ a.email = data.email}
  \cup
  {f \in {"phone"} :
     ~ghost.phoneHeld /\ \E r \in pgUsers : r.id # own /\ r.phone = data.phone}

\* route validation, ValidationUtils, then the uniqueness query
RegisterCheckS(s, kind, raw) ==
  LET data == sanitizedData(raw)
      ghost == registerGhostS(kind, raw, data)
      existingUsers == existingUsersS(pgUsers, data)
  IN /\ backend = "supabase"
     /\ FreeSlot(s)
     /\ IF ~validateRegistration(kind, raw)
          THEN Answer("register", ghost, ValidationFailed(validationResult(kind, raw)))
        ELSE IF validateRegistrationData(kind, raw) # {}
          THEN Answer("register", ghost,
                      ValidationError400(validateRegistrationData(kind, raw)))
        ELSE IF existingUsers # {}
          THEN \E existingUser \in existingUsers :
                 Answer("register", ghost,
                        conflictResponseS(kind, conflictFieldS(existingUser, data)))
        ELSE /\ inflight' = [inflight EXCEPT ![s] =
                   [op |-> "register", pc |-> "signUp", kind |-> kind,
                    body |-> data, ghost |-> ghost]]
             /\ UNCHANGED resp
     /\ UNCHANGED <<backend, initiated, otps, sessions, mongoVars, supaVars>>

\* await supabase.auth.signUp({email, password, ...})
RegisterSignUpS(s) ==
  LET r == inflight[s]
      seen == [r.ghost EXCEPT !.stage = "signUp",
                              !.lostRaceOn = lostRaceS(r.ghost, r.body, 0)]
      ghost == [seen EXCEPT !.identity = nextUid]
  IN /\ backend = "supabase"
     /\ r.op = "register" /\ r.pc = "signUp"
     /\ IF signUpRefused(authUsers, r.body.email)
          THEN /\ Finish(s, "register", seen,
                         Coded(400, "User already registered", "AUTH_SERVICE_ERROR"))
               /\ UNCHANGED <<authUsers, nextUid, clientSession>>
        ELSE /\ nextUid <= MaxUsers
             /\ authUsers' = authUsers \cup
                   {[id |-> nextUid, email |-> r.body.email, password |-> r.body.password]}
             /\ nextUid' = nextUid + 1
             /\ clientSession' = Some(nextUid)
             /\ inflight' = [inflight EXCEPT ![s] =
                   [op |-> "register", pc |-> "insert", kind |-> r.kind,
                    body |-> r.body, ghost |-> ghost, id |-> nextUid]]
             /\ UNCHANGED resp
     /\ UNCHANGED <<backend, initiated, otps, sessions, mongoVars, pgUsers>>

\* the row the handler of that kind inserts
registerRow(kind, id, data) ==
  newRow(id,
    [email |-> data.email, phone |-> data.phone,
     password_hash |-> Some(bcryptHash(data.password)),
     user_type |-> kind,
     is_verified |-> Undefined,
     is_nafath_verified |-> Undefined,
     nafath_id |-> Undefined,
     is_active |-> Some(TRUE),
     business_name |-> IF kind = "customer" THEN Undefined
                       ELSE data.businessInfo.businessName,
     commercial_registration |-> IF kind = "shop"
                                   THEN data.businessInfo.commercialRegistration
                                   ELSE Undefined,
     family_size |-> IF kind = "productive_family"
                       THEN data.familyInfo.familySize ELSE Undefined])

\* what the handler answers once a failed insert has been cleaned up
insertFailureS(kind, code) ==
  LET what == CASE kind = "customer" -> "user"
                [] kind = "shop" -> "shop"
                [] kind = "productive_family" -> "family"
  IN IF code = "23505"
       THEN Coded(409, noun(kind) \o " with this email or phone already exists",
                  CASE kind = "customer" -> "DUPLICATE_USER_DATA"
                    [] kind = "shop" -> "DUPLICATE_SHOP_DATA"
                    [] kind = "productive_family" -> "DUPLICATE_FAMILY_DATA")
     ELSE IF code = "23502"
       THEN Coded(400, "Required " \o what \o " information is missing",
                  CASE kind = "customer" -> "MISSING_USER_DATA"
                    [] kind = "shop" -> "MISSING_SHOP_DATA"
                    [] kind = "productive_family" -> "MISSING_FAMILY_DATA")
     ELSE Coded(500, "Failed to create " \o what \o " profile", "DATABASE_INSERT_ERROR")

\* the failures a registration may meet once its identity exists: bcrypt.hash
\* throws, the insert returns an error, the insert throws
Faults == {"hashError", "dbError", "dbException"}

\* where the handler goes on such a failure: the three catch blocks and the
\* `if (dbError)` block all start with the compensating deleteUser
skipsCleanupOnHashError(fault) == IF fault = "hashError" THEN "answer" ELSE "cleanup"
onFailureS(fault) == "cleanup"

\* bcrypt.hash, then await supabase.from('users').insert({...}).select().single()
RegisterInsertS(s) ==
  LET r == inflight[s]
      ghost == [r.ghost EXCEPT !.stage = "insert",
                               !.lostRaceOn = @ \cup lostRaceS(r.ghost, r.body, r.id)]
      row == registerRow(r.kind, r.id, r.body)
      dbError == insertError(pgUsers, authUsers, row)
  IN /\ backend = "supabase"
     /\ r.op = "register" /\ r.pc = "insert"
     /\ IF IsDefined(dbError)
          THEN /\ inflight' = [inflight EXCEPT ![s] =
                     [op |-> "register", pc |-> onFailureS("dbError"), kind |-> r.kind,
                      ghost |-> [ghost EXCEPT !.fault = "dbError"],
                      id |-> r.id, code |-> The(dbError)]]
               /\ UNCHANGED <<pgUsers, resp>>
        ELSE /\ pgUsers' = pgUsers \cup {row}
             /\ Finish(s, "register", ghost,
                       sendTokenResponseS(row, Some([user |-> r.id]), 201))
     /\ UNCHANGED <<backend, initiated, otps, sessions, mongoVars, authUsers, nextUid, clientSession>>

\* the same step when bcrypt.hash throws, when the store answers the insert
\* with an error of its own (42501: the row-level policy refuses it) or when
\* the call throws
RegisterFaultS(s, fault) ==
  LET r == inflight[s]
      ghost == [r.ghost EXCEPT !.stage = "insert", !.fault = fault]
  IN /\ backend = "supabase"
     /\ r.op = "register" /\ r.pc = "insert"
     /\ inflight' = [inflight EXCEPT ![s] =
           [op |-> "register", pc |-> onFailureS(fault), kind |-> r.kind,
            ghost |-> ghost, id |-> r.id,
            code |-> IF fault = "dbError" THEN "42501" ELSE fault]]
     /\ UNCHANGED <<backend, initiated, otps, sessions, mongoVars, supaVars, resp>>

\* supabase.auth.admin.deleteUser(id): the identity and, by ON DELETE CASCADE,
\* its row go; the handler ignores a failure of the call
deleteUser(identities, id) == {a \in identities : a.id # id}

\* what the call may do: delete the identity, return an error, throw
DeleteOutcomes == {"deleted", "error", "thrown"}

\* what the handler answers after the compensating delete, whatever the
\* delete did: each catch block swallows cleanupError
cleanupResponseS(kind, code, outcome) ==
  IF code = "hashError"
    THEN Coded(500, "Password processing failed", "PASSWORD_HASH_ERROR")
  ELSE IF code = "dbException"
    THEN Coded(500, "Database service unavailable", "DATABASE_SERVICE_UNAVAILABLE")
  ELSE insertFailureS(kind, code)

\* await supabase.auth.admin.deleteUser(authData.user.id), then the answer
RegisterCleanupS(s) ==
  LET r == inflight[s]
  IN /\ backend = "supabase"
     /\ r.op = "register" /\ r.pc \in {"cleanup", "answer"}
     /\ \E outcome \in IF r.pc = "cleanup" THEN DeleteOutcomes ELSE {"none"} :
          /\ IF outcome = "deleted"
               THEN /\ authUsers' = deleteUser(authUsers, r.id)
                    /\ pgUsers' = {row \in pgUsers : row.id # r.id}
               ELSE UNCHANGED <<authUsers, pgUsers>>
          /\ Finish(s, "register",
                    [r.ghost EXCEPT !.stage = "cleanup", !.cleanup = outcome],
                    cleanupResponseS(r.kind, r.code, outcome))
     /\ UNCHANGED <<backend, initiated, otps, sessions, mongoVars, nextUid, clientSession>>

(***************************************************************************)
(* The earlier Supabase register (the controller kept in config/database.js)*)
(***************************************************************************)
\* an exception that is no store or auth error, as errorHandler receives it
Thrown(message) ==
  [code |-> "", name |-> "Error", message |-> message, details |-> {},
   statusCode |-> Undefined]

\* the required-field checks pass for every body of the input domains; then
\* the uniqueness query on the values as sent
RegisterCheckL(s, raw) ==
  LET body == [raw EXCEPT !.email = normalizeEmail(raw.email)]
      ghost == registerGhostS("customer", raw, body)
      existingUsers == existingUsersS(pgUsers, body)
  IN /\ backend = "legacy"
     /\ FreeSlot(s)
     /\ IF existingUsers # {}
          THEN \E existingUser \in existingUsers :
                 Answer("register", ghost,
                        Plain(409, FALSE,
                              "User with this " \o conflictFieldS(existingUser, body)
                                \o " already exists"))
        ELSE /\ inflight' = [inflight EXCEPT ![s] =
                   [op |-> "register", pc |-> "signUp", kind |-> "customer",
                    body |-> body, ghost |-> ghost]]
             /\ UNCHANGED resp
     /\ UNCHANGED <<backend, initiated, otps, sessions, mongoVars, supaVars>>

\* await supabase.auth.signUp({email, password, ...})
RegisterSignUpL(s) ==
  LET r == inflight[s]
      seen == [r.ghost EXCEPT !.stage = "signUp"]
  IN /\ backend = "legacy"
     /\ r.op = "register" /\ r.pc = "signUp"
     /\ IF signUpRefused(authUsers, r.body.email)
          THEN /\ Finish(s, "register", seen, Plain(400, FALSE, "User already registered"))
               /\ UNCHANGED <<authUsers, nextUid, clientSession>>
        ELSE /\ nextUid <= MaxUsers
             /\ authUsers' = authUsers \cup
                   {[id |-> nextUid, email |-> r.body.email, password |-> r.body.password]}
             /\ nextUid' = nextUid + 1
             /\ clientSession' = Some(nextUid)
             /\ inflight' = [inflight EXCEPT ![s] =
                   [op |-> "register", pc |-> "insert", kind |-> r.kind,
                    body |-> r.body, ghost |-> [seen EXCEPT !.identity = nextUid],
                    id |-> nextUid]]
             /\ UNCHANGED resp
     /\ UNCHANGED <<backend, initiated, otps, sessions, mongoVars, pgUsers>>

\* the row this register inserts: is_active is left to the column
legacyRow(id, data) ==
  [registerRow("customer", id, data) EXCEPT !.is_active = Undefined]

\* bcrypt.hash and the insert, outside any inner try: a throw of either goes
\* to the outer catch and next(error); an insert error goes to the cleanup
RegisterInsertL(s, fault) ==
  LET r == inflight[s]
      row == legacyRow(r.id, r.body)
      dbError == IF fault = "dbError" THEN Some("42501")
                 ELSE insertError(pgUsers, authUsers, row)
      ghost == [r.ghost EXCEPT !.stage = "insert",
                               !.fault = IF fault = "none" /\ IsDefined(dbError)
                                           THEN "dbError" ELSE fault]
  IN /\ backend = "legacy"
     /\ r.op = "register" /\ r.pc = "insert"
     /\ IF fault \in {"hashError", "dbException"}
          THEN /\ Finish(s, "register", ghost, errorHandler(Thrown(fault)))
               /\ UNCHANGED pgUsers
        ELSE IF IsDefined(dbError)
          THEN /\ inflight' = [inflight EXCEPT ![s] =
                     [op |-> "register", pc |-> "cleanup", kind |-> r.kind,
                      ghost |-> ghost, id |-> r.id, code |-> The(dbError)]]
               /\ UNCHANGED <<pgUsers, resp>>
        ELSE /\ pgUsers' = pgUsers \cup {row}
             /\ Finish(s, "register", ghost,
                       sendTokenResponseS(row, Some([user |-> r.id]), 201))
     /\ UNCHANGED <<backend, initiated, otps, sessions, mongoVars, authUsers, nextUid, clientSession>>

\* what this register answers after the compensating delete: the delete is
\* awaited outside any inner try, so a throw of it goes to next(error)
cleanupResponseL(outcome) ==
  IF outcome = "thrown" THEN errorHandler(Thrown("deleteUser failed"))
  ELSE Plain(500, FALSE, "Failed to create user profile")

\* await supabase.auth.admin.deleteUser(authData.user.id), then the answer
RegisterCleanupL(s) ==
  LET r == inflight[s]
  IN /\ backend = "legacy"
     /\ r.op = "register" /\ r.pc = "cleanup"
     /\ \E outcome \in DeleteOutcomes :
          /\ IF outcome = "deleted"
               THEN /\ authUsers' = deleteUser(authUsers, r.id)
                    /\ pgUsers' = {row \in pgUsers : row.id # r.id}
               ELSE UNCHANGED <<authUsers, pgUsers>>
          /\ Finish(s, "register",
                    [r.ghost EXCEPT !.stage = "cleanup", !.cleanup = outcome],
                    cleanupResponseL(outcome))
     /\ UNCHANGED <<backend, initiated, otps, sessions, mongoVars, nextUid, clientSession>>

(***************************************************************************)
(* Supabase controller: login, getMe                                       *)
(***************************************************************************)
\* history: why a login may fail
loginGhostS(rows, identities, body) ==
  [case |-> IF ~\E r \in rows : r.email = body.email
              THEN IF \E a \in identities : a.email = body.email
                     THEN "identityWithoutProfile" ELSE "noSuchEmail"
            ELSE IF ~IsDefined(signInWithPassword(identities, body.email, body.password))
              THEN "wrongPassword"
            ELSE "credentialsOk",
   active |-> \A r \in rows : r.email = body.email => r.is_active = Some(TRUE),
   issued |-> IsDefined(signInWithPassword(identities, body.email, body.password))]

loginS(rows, identities, body) ==
  LET authData == signInWithPassword(identities, body.email, body.password)
      userData == {r \in rows : IsDefined(authData) /\ r.id = The(authData).id}
  IN IF ~IsDefined(authData) THEN InvalidCredentials
     ELSE IF userData = {} THEN Plain(500, FALSE, "Failed to fetch user profile")
     ELSE IF The(userData).is_active # Some(TRUE)
       THEN Plain(401, FALSE, "Account is deactivated")
     ELSE sendTokenResponseS(The(userData), Some([user |-> The(authData).id]), 200)

LoginS(raw) ==
  LET body == [raw EXCEPT !.email = normalizeEmail(raw.email)]
      authData == signInWithPassword(authUsers, body.email, body.password)
  IN /\ backend = "supabase"
     /\ clientSession' = IF IsDefined(authData) THEN Some(The(authData).id)
                          ELSE clientSession
     /\ sessions' = sessions \cup {[user |-> a.id, via |-> "login"] : a \in authData}
     /\ Answer("login", loginGhostS(pgUsers, authUsers, body),
               loginS(pgUsers, authUsers, body))
     /\ UNCHANGED <<backend, initiated, otps, mongoVars, authUsers, pgUsers, nextUid>>

\* is_active set to false, from outside the handlers
DeactivateS(id) ==
  /\ backend = "supabase"
  /\ \E r \in pgUsers : r.id = id /\ r.is_active = Some(TRUE)
  /\ pgUsers' = {IF r.id = id THEN [r EXCEPT !.is_active = Some(FALSE)] ELSE r :
                   r \in pgUsers}
  /\ UNCHANGED <<backend, initiated, otps, sessions, mongoVars, authUsers, nextUid, clientSession, inflight, resp>>

\* getMe: the user of the session the shared client holds, select('*')
getMeS(rows, identities, session) ==
  LET authUser == {a \in identities : IsDefined(session) /\ a.id = The(session)}
      userData == {r \in rows : authUser # {} /\ r.id = The(authUser).id}
  IN IF authUser = {} THEN Plain(401, FALSE, "Not authenticated")
     ELSE IF userData = {}
       THEN errorHandler(PGRST116)
     ELSE [status |-> 200, body |-> [success |-> TRUE, user |-> The(userData)]]

\* behind protect: some active profile's bearer token was presented
GetMeS ==
  /\ backend = "supabase"
  /\ \E r \in pgUsers : r.is_active = Some(TRUE)
  /\ Answer("getMe", [case |-> "getMe"], getMeS(pgUsers, authUsers, clientSession))
  /\ UNCHANGED <<backend, initiated, otps, sessions, mongoVars, supaVars>>

(***************************************************************************)
(* Supabase controller: forgotPassword, resetPassword                      *)
(***************************************************************************)
\* forgotPassword: the row with the address, then resetPasswordForEmail; the
\* link the service mails carries the tokens of a recovery session
ForgotPasswordS(email) ==
  LET userData == {r \in pgUsers : r.email = email}
      recovery == {[user |-> a.id, via |-> "recovery"] :
                     a \in {i \in authUsers : i.email = email}}
  IN /\ backend = "supabase"
     /\ IF userData = {}
          THEN /\ Answer("forgotPassword", [case |-> "noSuchEmail"],
                         Plain(404, FALSE, "User not found"))
               /\ UNCHANGED sessions
        ELSE /\ sessions' = sessions \cup recovery
             /\ Answer("forgotPassword", [case |-> "sent"],
                       Plain(200, TRUE, "Reset password email sent"))
     /\ UNCHANGED <<backend, initiated, otps, mongoVars, supaVars>>

\* supabase.auth.setSession({access_token, refresh_token}): the user of the
\* session, whatever the session was issued for; an error for tokens the
\* service never issued
setSession(issued, session) ==
  IF session \in issued THEN Some(session.user) ELSE Undefined

\* resetPassword: setSession with the tokens of the body (the client keeps
\* that session), updateUser({password}), getUserProfile, the answer
ResetPasswordS(password, session) ==
  LET user == setSession(sessions, session)
      identity == {a \in authUsers : a.id \in user}
      userData == {r \in pgUsers : r.id \in user}
      ghost == [case |-> "resetPassword", via |-> session.via, user |-> session.user]
  IN /\ backend = "supabase"
     /\ IF ~IsDefined(user)
          THEN /\ Answer("resetPassword", ghost,
                         Plain(400, FALSE, "Invalid or expired tokens"))
               /\ UNCHANGED <<authUsers, clientSession>>
        ELSE IF identity = {}
          THEN /\ clientSession' = user
               /\ Answer("resetPassword", ghost,
                         Plain(500, FALSE, "Failed to update password"))
               /\ UNCHANGED authUsers
        ELSE /\ clientSession' = user
             /\ authUsers' = {IF a.id \in user THEN [a EXCEPT !.password = password]
                              ELSE a : a \in authUsers}
             /\ Answer("resetPassword", ghost,
                       IF userData = {} THEN errorHandler(PGRST116)
                       ELSE sendTokenResponseS(The(userData), Some([user |-> The(user)]), 200))
     /\ UNCHANGED <<backend, initiated, otps, sessions, mongoVars, pgUsers, nextUid>>

(***************************************************************************)
(* Supabase controller: verifyEmail, resendVerification                    *)
(***************************************************************************)
\* supabase.auth.verifyOtp({token_hash, type: 'email'}): the identity whose
\* outstanding token this is, if any; the service consumes the token
verifyOtp(held, token_hash) == {o.id : o \in {h \in held : h.token = token_hash}}

\* verifyEmail: the query, verifyOtp (the client keeps the session it
\* returns), update({is_verified: true}).eq('id', data.user.id); an error of
\* the update is only logged
VerifyEmailS(token_hash, type) ==
  LET user == verifyOtp(otps.held, token_hash)
      ghost == [case |-> "verifyEmail", token |-> token_hash, type |-> type]
  IN /\ backend = "supabase"
     /\ IF type # "email"
          THEN /\ Answer("verifyEmail", ghost,
                         Plain(400, FALSE, "Invalid verification parameters"))
               /\ UNCHANGED <<otps, pgUsers, clientSession>>
        ELSE IF ~IsDefined(user)
          THEN /\ Answer("verifyEmail", ghost,
                         Plain(400, FALSE, "Invalid or expired verification token"))
               /\ UNCHANGED <<otps, pgUsers, clientSession>>
        ELSE /\ otps' = [otps EXCEPT !.held = {h \in @ : h.token # token_hash}]
             /\ clientSession' = user
             /\ pgUsers' = {IF r.id = The(user) THEN [r EXCEPT !.is_verified = TRUE]
                            ELSE r : r \in pgUsers}
             /\ Answer("verifyEmail", ghost, Plain(200, TRUE, "Email verified successfully"))
     /\ UNCHANGED <<backend, initiated, sessions, mongoVars, authUsers, nextUid>>

\* a service that leaves the earlier token redeemable
resendKeepingOld(o, identities, email) ==
  [issued |-> o.issued + 1,
   held |-> o.held \cup {[id |-> a.id, token |-> o.issued + 1] :
                           a \in {i \in identities : i.email = email}}]
\* supabase.auth.resend({type: 'signup', email}): the service replaces the
\* outstanding token of the identity with that address by a new one
resend(o, identities, email) ==
  LET ids == {a.id : a \in {i \in identities : i.email = email}}
  IN [issued |-> o.issued + 1,
      held |-> {h \in o.held : h.id \notin ids}
                 \cup {[id |-> i, token |-> o.issued + 1] : i \in ids}]

\* resendVerification: select('id, email, is_verified').eq('email', email)
\* .single(), then supabase.auth.resend
ResendVerificationS(email) ==
  LET userData == {r \in pgUsers : r.email = email}
      ghost == [case |-> "resendVerification", email |-> email,
                verified |-> \E r \in userData : r.is_verified]
  IN /\ backend = "supabase"
     /\ IF userData = {}
          THEN /\ Answer("resendVerification", ghost, Plain(404, FALSE, "User not found"))
               /\ UNCHANGED otps
        ELSE IF The(userData).is_verified
          THEN /\ Answer("resendVerification", ghost,
                         Plain(400, FALSE, "Email is already verified"))
               /\ UNCHANGED otps
        ELSE /\ otps.issued < MaxRandom
             /\ otps' = resend(otps, authUsers, email)
             /\ Answer("resendVerification", ghost,
                       Plain(200, TRUE, "Verification email sent"))
     /\ UNCHANGED <<backend, initiated, sessions, mongoVars, supaVars>>

(***************************************************************************)
(* Supabase controller: nafathCallback; user controller: updateProfile     *)
(***************************************************************************)
\* history: what the callback was asked and what the stores held
nafathGhostS(nafathId, verified, userData) ==
  [case |-> "nafathCallback", verified |-> verified, nafathId |-> nafathId,
   pending |-> nafathId \in initiated,
   idHeld |-> \E r \in pgUsers : r.nafath_id = Some(nafathId),
   emailHeld |-> \E r \in pgUsers : r.email = userData.email,
   profiles |-> Cardinality(pgUsers)]

\* the checks on the body, then await ...eq('nafath_id', nafathId).single()
NafathFindS(s, nafathId, verified, userData) ==
  LET ghost == nafathGhostS(nafathId, verified, userData)
      found == {r \in pgUsers : r.nafath_id = Some(nafathId)}
  IN /\ backend = "supabase"
     /\ FreeSlot(s)
     /\ IF nafathId = ""
          THEN Answer("nafathCallback", ghost, Plain(400, FALSE, "Please provide Nafath ID"))
        ELSE IF ~verified
          THEN Answer("nafathCallback", ghost,
                      Plain(401, FALSE, "Nafath verification failed"))
        ELSE /\ inflight' = [inflight EXCEPT ![s] =
                   IF Cardinality(found) = 1
                     THEN [op |-> "nafathCallback", pc |-> "update",
                           id |-> The(found).id, ghost |-> ghost]
                     ELSE [op |-> "nafathCallback", pc |-> "signUp",
                           nafathId |-> nafathId, userData |-> userData,
                           ghost |-> ghost]]
             /\ UNCHANGED resp
     /\ UNCHANGED <<backend, initiated, otps, sessions, mongoVars, supaVars>>

\* await supabase.auth.signUp({email, password: <32 random bytes>})
NafathSignUpS(s) ==
  LET r == inflight[s]
  IN /\ backend = "supabase"
     /\ r.op = "nafathCallback" /\ r.pc = "signUp"
     /\ IF signUpRefused(authUsers, r.userData.email)
          THEN /\ Finish(s, "nafathCallback", r.ghost,
                         Plain(500, FALSE, "Failed to create user account"))
               /\ UNCHANGED <<authUsers, nextUid, clientSession>>
        ELSE /\ nextUid <= MaxUsers
             /\ authUsers' = authUsers \cup
                   {[id |-> nextUid, email |-> r.userData.email,
                     password |-> "<randomBytes>"]}
             /\ nextUid' = nextUid + 1
             /\ clientSession' = Some(nextUid)
             /\ inflight' = [inflight EXCEPT ![s] =
                   [op |-> "nafathCallback", pc |-> "insert", id |-> nextUid,
                    nafathId |-> r.nafathId, userData |-> r.userData,
                    ghost |-> r.ghost]]
             /\ UNCHANGED resp
     /\ UNCHANGED <<backend, initiated, otps, sessions, mongoVars, pgUsers>>

\* the row the callback inserts for a new user
nafathRow(id, nafathId, userData) ==
  newRow(id,
    [email |-> userData.email, phone |-> userData.phone,
     password_hash |-> Undefined, user_type |-> "customer",
     is_verified |-> Some(TRUE), is_nafath_verified |-> Some(TRUE),
     nafath_id |-> Some(nafathId), is_active |-> Undefined,
     business_name |-> Undefined, commercial_registration |-> Undefined,
     family_size |-> Undefined])

\* await supabase.from('users').insert({...}).select().single()
NafathInsertS(s) ==
  LET r == inflight[s]
      row == nafathRow(r.id, r.nafathId, r.userData)
  IN /\ backend = "supabase"
     /\ r.op = "nafathCallback" /\ r.pc = "insert"
     /\ IF IsDefined(insertError(pgUsers, authUsers, row))
          THEN /\ Finish(s, "nafathCallback", r.ghost,
                         Plain(500, FALSE, "Failed to create user profile"))
               /\ UNCHANGED pgUsers
        ELSE /\ pgUsers' = pgUsers \cup {row}
             /\ Finish(s, "nafathCallback", r.ghost,
                       sendTokenResponseS(row, Some([user |-> r.id]), 200))
     /\ UNCHANGED <<backend, initiated, otps, sessions, mongoVars, authUsers, nextUid, clientSession>>

\* supabase.from('users').update(changes).eq('id', id): the table afterwards
updateRow(rows, id, changes) ==
  {IF r.id = id
     THEN [f \in DOMAIN r |-> IF f \in DOMAIN changes THEN changes[f] ELSE r[f]]
     ELSE r : r \in rows}

\* await ...update({is_nafath_verified: true, is_verified: true}).eq('id', ...),
\* await generateLink (its data has no session)
NafathUpdateS(s) ==
  LET r == inflight[s]
      changes == [is_nafath_verified |-> Some(TRUE), is_verified |-> TRUE]
      updated == updateRow(pgUsers, r.id, changes)
      updatedUser == {row \in updated : row.id = r.id}
  IN /\ backend = "supabase"
     /\ r.op = "nafathCallback" /\ r.pc = "update"
     /\ pgUsers' = updated
     /\ IF updatedUser = {}
          THEN Finish(s, "nafathCallback", r.ghost,
                      Plain(500, FALSE, "Failed to update user"))
        ELSE Finish(s, "nafathCallback", r.ghost,
                    sendTokenResponseS(The(updatedUser), Undefined, 200))
     /\ UNCHANGED <<backend, initiated, otps, sessions, mongoVars, authUsers, nextUid, clientSession>>

\* updateProfile behind protect, with the service-role client: the update
\* names email and phone; the answer is the row without password_hash
UpdateProfileS(id, fieldsToUpdate) ==
  LET updated == updateRow(pgUsers, id, fieldsToUpdate)
      user == {r \in updated : r.id = id}
      clash == \E r \in pgUsers : r.id # id /\ "email" \in DOMAIN fieldsToUpdate
                                   /\ r.email = fieldsToUpdate.email
  IN /\ backend = "supabase"
     /\ \E r \in pgUsers : r.id = id /\ r.is_active = Some(TRUE)
     /\ IF clash
          THEN /\ Answer("updateProfile", [case |-> "updateProfile"],
                         errorHandler([code |-> "", name |-> "Error",
                                       message |-> "Error updating profile",
                                       details |-> {}, statusCode |-> Some(500)]))
               /\ UNCHANGED pgUsers
        ELSE /\ pgUsers' = updated
             /\ Answer("updateProfile", [case |-> "updateProfile"],
                       [status |-> 200,
                        body |-> [success |-> TRUE,
                                  data |-> [f \in DOMAIN The(user) \ {"password_hash"}
                                              |-> The(user)[f]]]])
     /\ UNCHANGED <<backend, initiated, otps, sessions, mongoVars, authUsers, nextUid, clientSession>>

(***************************************************************************)
(* Both controllers: nafathAuth                                            *)
(***************************************************************************)
\* the data of the 200 answer; the Supabase controller adds userExists
initiatedData(transactionId) ==
  [transactionId |-> transactionId,
   status |-> "pending",
   redirectUrl |-> "/api/auth/nafath/callback?transaction=" \o transactionId]

\* a nafathAuth that reports the flow as verified at once
nafathAuthVerifiedM(body) ==
  IF ~IsDefined(body.nafathId) \/ ~IsDefined(body.transactionId)
    THEN Plain(400, FALSE, "Nafath ID and transaction ID are required")
  ELSE [status |-> 200,
        body |-> [success |-> TRUE, message |-> "Nafath authentication initiated",
                  data |-> [initiatedData(The(body.transactionId))
                              EXCEPT !.status = "verified"]]]
\* nafathAuth, Mongoose controller
nafathAuthM(body) ==
  IF ~IsDefined(body.nafathId) \/ ~IsDefined(body.transactionId)
    THEN Plain(400, FALSE, "Nafath ID and transaction ID are required")
  ELSE [status |-> 200,
        body |-> [success |-> TRUE, message |-> "Nafath authentication initiated",
                  data |-> initiatedData(The(body.transactionId))]]

\* nafathAuth, Supabase controller: .eq('nafath_id', nafathId).single()
\* gives a row only when exactly one matches (PGRST116 otherwise)
nafathAuthS(rows, body) ==
  LET hits == {r \in rows : r.nafath_id = body.nafathId}
      d == initiatedData(The(body.transactionId))
  IN IF ~IsDefined(body.nafathId) \/ ~IsDefined(body.transactionId)
       THEN Plain(400, FALSE, "Nafath ID and transaction ID are required")
     ELSE [status |-> 200,
           body |-> [success |-> TRUE, message |-> "Nafath authentication initiated",
                     data |-> [transactionId |-> d.transactionId,
                               status |-> d.status,
                               redirectUrl |-> d.redirectUrl,
                               userExists |-> Cardinality(hits) = 1]]]

\* history: what the request carried and whether a profile holds the id
nafathAuthGhost(holders, body) ==
  [case |-> "nafathAuth",
   bothPresent |-> IsDefined(body.nafathId) /\ IsDefined(body.transactionId),
   idHeld |-> IsDefined(body.nafathId) /\ holders # {}]

\* the flows that have been answered "pending"
initiatedAfter(body, r) ==
  IF r.status = 200 THEN initiated \cup body.nafathId ELSE initiated

NafathAuthM(body) ==
  /\ backend = "mongoose"
  /\ Answer("nafathAuth",
            nafathAuthGhost({d \in users : d.nafathId = body.nafathId}, body),
            nafathAuthM(body))
  /\ initiated' = initiatedAfter(body, nafathAuthM(body))
  /\ UNCHANGED <<backend, otps, sessions, mongoVars, supaVars>>

NafathAuthS(body) ==
  /\ backend = "supabase"
  /\ Answer("nafathAuth",
            nafathAuthGhost({r \in pgUsers : r.nafath_id = body.nafathId}, body),
            nafathAuthS(pgUsers, body))
  /\ initiated' = initiatedAfter(body, nafathAuthS(pgUsers, body))
  /\ UNCHANGED <<backend, otps, sessions, mongoVars, supaVars>>

(***************************************************************************)
(* middleware/auth: protect, authorize; the user routes behind them        *)
(***************************************************************************)
\* jwt.verify(token, JWT_SECRET): the payload, or a throw (no payload)
jwtVerify(token) ==
  IF token.signature = "valid" /\ ~token.expired THEN Some([id |-> token.id])
  ELSE Undefined

\* a protect that skips the is_active check
protectIgnoringActive(rows, authorization) ==
  LET decoded == IF IsDefined(authorization) THEN jwtVerify(The(authorization))
                 ELSE Undefined
      user == {r \in rows : IsDefined(decoded) /\ r.id = The(decoded).id}
  IN IF ~IsDefined(decoded) \/ user = {}
       THEN [next |-> FALSE, status |-> 401,
             body |-> [success |-> FALSE, message |-> "Not authorized to access this route"]]
     ELSE [next |-> TRUE,
           user |-> [f \in DOMAIN The(user) \ {"password_hash"} |-> The(user)[f]]]
\* protect: either a 401, or next() with req.user, the row without its
\* password_hash
protect(rows, authorization) ==
  LET decoded == IF IsDefined(authorization) THEN jwtVerify(The(authorization))
                 ELSE Undefined
      user == {r \in rows : IsDefined(decoded) /\ r.id = The(decoded).id}
      refused(msg) == [next |-> FALSE, status |-> 401,
                       body |-> [success |-> FALSE, message |-> msg]]
  IN IF ~IsDefined(authorization) THEN refused("Not authorized to access this route")
     ELSE IF ~IsDefined(decoded) THEN refused("Not authorized to access this route")
     ELSE IF user = {} THEN refused("User not found")
     ELSE IF The(user).is_active # Some(TRUE) THEN refused("User account is deactivated")
     ELSE [next |-> TRUE,
           user |-> [f \in DOMAIN The(user) \ {"password_hash"} |-> The(user)[f]]]

\* the routes of the user router and the roles their authorize(...) names;
\* PUT /profile has no authorize
Routes == {"profile", "profile/business", "profile/family"}
roles(route) ==
  CASE route = "profile" -> UserTypes
    [] route = "profile/business" -> {"shop", "productive_family"}
    [] route = "profile/family" -> {"productive_family"}

\* an authorize that lets every kind through
authorizeAny(allowed, user) == TRUE
\* authorize(...roles): roles.includes(req.user.user_type)
authorize(allowed, user) == user.user_type \in allowed

\* history: what the request carried and what the table held for its subject
protectGhost(rows, authorization, route) ==
  LET subject == {r \in rows : IsDefined(authorization)
                                 /\ r.id = The(authorization).id}
  IN [case |-> "protected", route |-> route,
      verifies |-> /\ IsDefined(authorization)
                   /\ The(authorization).signature = "valid"
                   /\ ~The(authorization).expired,
      subjectExists |-> subject # {},
      subjectActive |-> \E r \in subject : r.is_active = Some(TRUE),
      kind |-> IF subject = {} THEN "" ELSE The(subject).user_type,
      subject |-> IF IsDefined(authorization) THEN The(authorization).id ELSE 0,
      actedOn |-> {},
      ran |-> FALSE]

\* router.use(protect): the token, then await ...from('users')...single()
ProtectS(s, authorization, route) ==
  LET ghost == protectGhost(pgUsers, authorization, route)
      p == protect(pgUsers, authorization)
  IN /\ backend = "supabase"
     /\ FreeSlot(s)
     /\ IF p.next
          THEN /\ inflight' = [inflight EXCEPT ![s] =
                     [op |-> "protected", pc |-> "next", route |-> route,
                      user |-> p.user, ghost |-> ghost]]
               /\ UNCHANGED resp
          ELSE Answer("protected", ghost, [status |-> p.status, body |-> p.body])
     /\ UNCHANGED <<backend, initiated, otps, sessions, mongoVars, supaVars>>

\* the update a handler of the user controller sends for req.user.id
\* req.body of the three routes: a key may be absent, null or a value
NoKeys == [f \in {} |-> Undefined]
RequestBodies(route) ==
  CASE route = "profile" -> {[phone |-> "0500000002"]}
    [] route = "profile/business" ->
         {[businessName |-> Some("new biz")], [businessName |-> Undefined], NoKeys}
    [] route = "profile/family" ->
         {[familySize |-> Some([typeof |-> "number", value |-> 6])]}

\* an update that also writes the kind
handlerUpdateWithKind(route, body) == [user_type |-> "shop"]
\* the object passed to .update(): a key whose value is undefined is not
\* sent (JSON), a null is
handlerUpdate(route, body) ==
  CASE route = "profile" -> [f \in DOMAIN body \cap {"email", "phone"} |-> body[f]]
    [] route = "profile/business" ->
         IF "businessName" \in DOMAIN body THEN [business_name |-> body.businessName]
         ELSE NoKeys
    [] route = "profile/family" ->
         IF "familySize" \in DOMAIN body THEN [family_size |-> body.familySize]
         ELSE NoKeys

\* the handler's own check of req.user.user_type, where it has one
handlerRefuses(route, user) ==
  \/ route = "profile/business" /\ user.user_type # "shop"
  \/ route = "profile/family" /\ user.user_type # "productive_family"

\* authorize(...) where the route has one, then the handler: its own check,
\* await ...update(...).eq('id', req.user.id).select().single(), the answer
HandleS(s, body) ==
  LET r == inflight[s]
      updated == updateRow(pgUsers, r.user.id, handlerUpdate(r.route, body))
      user == {row \in updated : row.id = r.user.id}
      ran == [r.ghost EXCEPT !.ran = TRUE]
  IN /\ backend = "supabase"
     /\ r.op = "protected" /\ r.pc = "next" /\ r.route \in Routes
     /\ body \in RequestBodies(r.route)
     /\ IF r.route # "profile" /\ ~authorize(roles(r.route), r.user)
          THEN /\ Finish(s, "protected", r.ghost,
                         Plain(403, FALSE, "User type " \o r.user.user_type
                                 \o " is not authorized to access this route"))
               /\ UNCHANGED pgUsers
        ELSE IF handlerRefuses(r.route, r.user)
          THEN /\ Finish(s, "protected", ran,
                         errorHandler([code |-> "", name |-> "Error",
                                       message |-> IF r.route = "profile/business"
                                                     THEN "Only shop owners can update business info"
                                                     ELSE "Only productive families can update family info",
                                       details |-> {}, statusCode |-> Some(403)]))
               /\ UNCHANGED pgUsers
        ELSE /\ pgUsers' = updated
             /\ Finish(s, "protected", ran,
                       [status |-> 200,
                        body |-> [success |-> TRUE,
                                  data |-> [f \in DOMAIN The(user) \ {"password_hash"}
                                              |-> The(user)[f]]]])
     /\ UNCHANGED <<backend, initiated, otps, sessions, mongoVars, authUsers, nextUid, clientSession>>

(***************************************************************************)
(* Supabase controller behind protect: getMe, logout, updatePassword       *)
(***************************************************************************)
\* the routes of the auth router after router.use(protect)
AuthRoutes == {"me", "logout", "update-password"}

\* getMe after protect: supabase.auth.getUser() of the client getSupabase()
\* returns, then getUserProfile of that user; req.user is not read
GetMeAsS(s) ==
  LET r == inflight[s]
      out == getMeS(pgUsers, authUsers, clientSession)
  IN /\ backend = "supabase"
     /\ r.op = "protected" /\ r.pc = "next" /\ r.route = "me"
     /\ Finish(s, "protected",
               [r.ghost EXCEPT !.ran = TRUE,
                               !.actedOn = IF out.status = 200 THEN {out.body.user.id}
                                           ELSE {}],
               out)
     /\ UNCHANGED <<backend, initiated, otps, sessions, mongoVars, supaVars>>

\* logout after protect: supabase.auth.signOut() of the same client ends
\* the session that client holds
LogoutS(s) ==
  LET r == inflight[s]
  IN /\ backend = "supabase"
     /\ r.op = "protected" /\ r.pc = "next" /\ r.route = "logout"
     /\ clientSession' = Undefined
     /\ Finish(s, "protected",
               [r.ghost EXCEPT !.ran = TRUE, !.actedOn = clientSession],
               Plain(200, TRUE, "Logged out successfully"))
     /\ UNCHANGED <<backend, initiated, otps, sessions, mongoVars, authUsers, pgUsers, nextUid>>

\* updatePassword after protect: getUser() of the client, signInWithPassword
\* with that user's email, updateUser({password}), getUserProfile, the answer
UpdatePasswordS(s, currentPassword, newPassword) ==
  LET r == inflight[s]
      authUser == {a \in authUsers : IsDefined(clientSession) /\ a.id = The(clientSession)}
      verified == IF authUser = {} THEN Undefined
                  ELSE signInWithPassword(authUsers, The(authUser).email, currentPassword)
      userData == {row \in pgUsers : authUser # {} /\ row.id = The(authUser).id}
      ran == [r.ghost EXCEPT !.ran = TRUE]
  IN /\ backend = "supabase"
     /\ r.op = "protected" /\ r.pc = "next" /\ r.route = "update-password"
     /\ IF authUser = {}
          THEN /\ Finish(s, "protected", ran, Plain(401, FALSE, "Not authenticated"))
               /\ UNCHANGED authUsers
        ELSE IF ~IsDefined(verified)
          THEN /\ Finish(s, "protected", ran,
                         Plain(401, FALSE, "Current password is incorrect"))
               /\ UNCHANGED authUsers
        ELSE /\ authUsers' = {IF a.id = The(authUser).id
                                THEN [a EXCEPT !.password = newPassword] ELSE a
                              : a \in authUsers}
             /\ Finish(s, "protected",
                       [ran EXCEPT !.actedOn = {The(authUser).id}],
                       IF userData = {} THEN errorHandler(PGRST116)
                       ELSE sendTokenResponseS(The(userData),
                                               Some([user |-> The(authUser).id]), 200))
     /\ UNCHANGED <<backend, initiated, otps, sessions, mongoVars, pgUsers, nextUid, clientSession>>

(***************************************************************************)
(* The clock, the initial state                                            *)
(***************************************************************************)
Tick ==
  /\ now < MaxTicks * TickMs
  /\ now' = now + TickMs
  /\ UNCHANGED <<backend, initiated, otps, sessions, users, rand, redeemed, supaVars, inflight, resp>>

InitFor(deployed) ==
  /\ backend = deployed
  /\ users = {}
  /\ authUsers = {}
  /\ pgUsers = {}
  /\ nextUid = 1
  /\ clientSession = Undefined
  /\ now = 0
  /\ rand = 0
  /\ inflight = [s \in Slots |-> Idle]
  /\ resp = NoResponse
  /\ redeemed = {}
  /\ initiated = {}
  /\ otps = [issued |-> 0, held |-> {}]
  /\ sessions = {}

InitMongoose == InitFor("mongoose")
InitSupabase == InitFor("supabase")
InitLegacy == InitFor("legacy")
Init == InitMongoose \/ InitSupabase

(***************************************************************************)
(* Account life cycle: customers register, log in, read their profile,     *)
(* recover and change their password.                                      *)
(***************************************************************************)
\* the two customers of the account life cycle
AccountBodies ==
  {[email |-> "a@x.sa", phone |-> "0500000001", password |-> "Passw0rd!",
    businessInfo |-> NoBusinessInfo, familyInfo |-> NoFamilyInfo],
   [email |-> "b@x.sa", phone |-> "0500000002", password |-> "Passw0rd!",
    businessInfo |-> NoBusinessInfo, familyInfo |-> NoFamilyInfo]}

LoginBodies == [email : RawEmails, password : Passwords]

Tokens == 1 .. MaxRandom + 1
UserIds == 1 .. MaxUsers

\* password recovery on the Mongoose controller
NextRecovery ==
  \/ \E s \in Slots, raw \in AccountBodies : RegisterCheckM(s, "customer", raw)
  \/ \E s \in Slots : RegisterCreateM(s)
  \/ \E s \in Slots : RegisterSaveM(s)
  \/ \E e \in RawEmails : ForgotPasswordM(e)
  \/ \E s \in Slots, t \in Tokens : ResetFindM(s, t, "N3wPassw0rd!")
  \/ \E s \in Slots : ResetSaveM(s)
  \/ Tick

SpecRecovery == InitMongoose /\ [][NextRecovery]_vars

\* registration, login and the profile of the caller, on either controller
NextSession ==
  \/ \E s \in Slots, raw \in AccountBodies : RegisterCheckM(s, "customer", raw)
  \/ \E s \in Slots : RegisterCreateM(s)
  \/ \E s \in Slots : RegisterSaveM(s)
  \/ \E raw \in LoginBodies : LoginM(raw)
  \/ \E id \in UserIds : GetMeM(id)
  \/ \E id \in UserIds, cur \in Passwords : UpdatePasswordM(id, cur, "N3wPassw0rd!")
  \/ \E t \in Tokens : VerifyEmailM(t)
  \/ \E e \in Emails : ResendVerificationM(e)
  \/ \E s \in Slots, raw \in AccountBodies : RegisterCheckS(s, "customer", raw)
  \/ \E s \in Slots : RegisterSignUpS(s)
  \/ \E s \in Slots : RegisterInsertS(s)
  \/ \E raw \in LoginBodies : LoginS(raw)
  \/ GetMeS

SpecSession == Init /\ [][NextSession]_vars

(***************************************************************************)
(* Registration of the three kinds, two requests at a time                 *)
(***************************************************************************)
RegistrationBodies(kind) ==
  [email : Emails, phone : RawPhones, password : {"Passw0rd!"},
   businessInfo :
     [businessName : IF kind = "customer" THEN {Undefined} ELSE {Some("biz")},
      commercialRegistration :
        IF kind = "shop" THEN {Undefined} \cup {Some(c) : c \in CRs}
        ELSE {Undefined}],
   familyInfo :
     [familySize : IF kind = "productive_family" THEN {Some(Four)} ELSE {Undefined}]]

\* one registration at a time, every kind and every spelling
NextRegistration ==
  \/ \E kind \in UserTypes :
        \E raw \in RegistrationBodies(kind) : RegisterCheckM(1, kind, raw)
  \/ RegisterCreateM(1)
  \/ RegisterSaveM(1)
  \/ \E kind \in UserTypes :
        \E raw \in RegistrationBodies(kind) : RegisterCheckS(1, kind, raw)
  \/ RegisterSignUpS(1)
  \/ RegisterInsertS(1)

SpecRegistration == Init /\ [][NextRegistration]_vars

\* two registrations at a time
RaceBodies(kind) ==
  [email : Emails, phone : Phones, password : {"Passw0rd!"},
   businessInfo :
     [businessName : IF kind = "customer" THEN {Undefined} ELSE {Some("biz")},
      commercialRegistration :
        IF kind = "shop" THEN {Some("1010000001")} ELSE {Undefined}],
   familyInfo :
     [familySize : IF kind = "productive_family" THEN {Some(Four)} ELSE {Undefined}]]

NextRace ==
  \/ \E s \in Slots, kind \in UserTypes :
        \E raw \in RaceBodies(kind) : RegisterCheckM(s, kind, raw)
  \/ \E s \in Slots : RegisterCreateM(s)
  \/ \E s \in Slots : RegisterSaveM(s)
  \/ \E s \in Slots, kind \in UserTypes :
        \E raw \in RaceBodies(kind) : RegisterCheckS(s, kind, raw)
  \/ \E s \in Slots : RegisterSignUpS(s)
  \/ \E s \in Slots : RegisterInsertS(s)

SpecRace == Init /\ [][NextRace]_vars

(***************************************************************************)
(* Identity federation: customers register, the federation calls back      *)
(***************************************************************************)
NafathIds == {"1000000001", "1000000002"}
NafathUserData == {[email |-> b.email, phone |-> b.phone] : b \in AccountBodies}

NextFederation ==
  \/ \E s \in Slots, raw \in AccountBodies : RegisterCheckM(s, "customer", raw)
  \/ \E s \in Slots : RegisterCreateM(s)
  \/ \E s \in Slots : RegisterSaveM(s)
  \/ \E s \in Slots, n \in NafathIds, v \in BOOLEAN, u \in NafathUserData :
        NafathFindM(s, n, v, u)
  \/ \E s \in Slots : NafathSaveM(s)
  \/ \E s \in Slots, raw \in AccountBodies : RegisterCheckS(s, "customer", raw)
  \/ \E s \in Slots : RegisterSignUpS(s)
  \/ \E s \in Slots : RegisterInsertS(s)
  \/ \E s \in Slots, n \in NafathIds, v \in BOOLEAN, u \in NafathUserData :
        NafathFindS(s, n, v, u)
  \/ \E s \in Slots : NafathSignUpS(s)
  \/ \E s \in Slots : NafathInsertS(s)
  \/ \E s \in Slots : NafathUpdateS(s)

SpecFederation == Init /\ [][NextFederation]_vars

(***************************************************************************)
(* The directory of profiles: customers register and change their address  *)
(* and phone                                                               *)
(***************************************************************************)
ProfileUpdates == {[phone |-> p] : p \in Phones} \cup {[email |-> e] : e \in Emails}

NextDirectory ==
  \/ \E s \in Slots, raw \in AccountBodies : RegisterCheckM(s, "customer", raw)
  \/ \E s \in Slots : RegisterCreateM(s)
  \/ \E s \in Slots : RegisterSaveM(s)
  \/ \E id \in UserIds, f \in ProfileUpdates : UpdateProfileM(id, f)
  \/ \E s \in Slots, raw \in AccountBodies : RegisterCheckS(s, "customer", raw)
  \/ \E s \in Slots : RegisterSignUpS(s)
  \/ \E s \in Slots : RegisterInsertS(s)
  \/ \E s \in Slots : RegisterCleanupS(s)
  \/ \E id \in UserIds, f \in ProfileUpdates : UpdateProfileS(id, f)

SpecDirectory == Init /\ [][NextDirectory]_vars

(***************************************************************************)
(* Validation: registrations of every kind, valid and invalid, one at a    *)
(* time                                                                    *)
(***************************************************************************)
ValidationBodies(kind) ==
  [email : Emails, phone : {"0500000001", "12345"}, password : {"Passw0rd!"},
   businessInfo :
     [businessName : IF kind = "customer" THEN {Undefined}
                     ELSE {Undefined, Some("biz")},
      commercialRegistration :
        IF kind = "shop" THEN {Undefined, Some("1010000001")} ELSE {Undefined}],
   familyInfo :
     [familySize : IF kind = "productive_family"
                     THEN {Undefined, Some(Four), Some(FourAsString)}
                     ELSE {Undefined}]]

NextValidation ==
  \/ \E kind \in UserTypes :
        \E raw \in ValidationBodies(kind) : RegisterCheckM(1, kind, raw)
  \/ RegisterCreateM(1)
  \/ RegisterSaveM(1)
  \/ \E kind \in UserTypes :
        \E raw \in ValidationBodies(kind) : RegisterCheckS(1, kind, raw)
  \/ RegisterSignUpS(1)
  \/ RegisterInsertS(1)

SpecValidation == Init /\ [][NextValidation]_vars

(***************************************************************************)
(* Deactivation: customers register, are deactivated, log in               *)
(***************************************************************************)
NextDeactivation ==
  \/ \E raw \in AccountBodies : RegisterCheckM(1, "customer", raw)
  \/ RegisterCreateM(1)
  \/ RegisterSaveM(1)
  \/ \E id \in UserIds : DeactivateM(id)
  \/ \E raw \in LoginBodies : LoginM(raw)
  \/ \E raw \in AccountBodies : RegisterCheckS(1, "customer", raw)
  \/ RegisterSignUpS(1)
  \/ RegisterInsertS(1)
  \/ \E id \in UserIds : DeactivateS(id)
  \/ \E raw \in LoginBodies : LoginS(raw)

SpecDeactivation == Init /\ [][NextDeactivation]_vars

(***************************************************************************)
(* Rollback: registrations and callbacks that fail after the identity was  *)
(* created, on the two Supabase register controllers                       *)
(***************************************************************************)
RollbackBodies(kind) ==
  {[b EXCEPT !.businessInfo =
               [businessName |-> IF kind = "customer" THEN Undefined ELSE Some("biz"),
                commercialRegistration |-> IF kind = "shop" THEN Some("1010000001")
                                           ELSE Undefined],
             !.familyInfo =
               [familySize |-> IF kind = "productive_family" THEN Some(Four)
                               ELSE Undefined]] : b \in AccountBodies}

EmailUpdates == {[email |-> e] : e \in Emails}

\* one request at a time; updateProfile may fall between two of its awaits
NextRollback ==
  \/ \E kind \in UserTypes :
        \E raw \in RollbackBodies(kind) : RegisterCheckS(1, kind, raw)
  \/ RegisterSignUpS(1)
  \/ RegisterInsertS(1)
  \/ \E fault \in Faults : RegisterFaultS(1, fault)
  \/ RegisterCleanupS(1)
  \/ \E raw \in AccountBodies : RegisterCheckL(1, raw)
  \/ RegisterSignUpL(1)
  \/ \E fault \in Faults \cup {"none"} : RegisterInsertL(1, fault)
  \/ RegisterCleanupL(1)
  \/ \E n \in NafathIds, v \in BOOLEAN, u \in NafathUserData :
        NafathFindS(1, n, v, u)
  \/ NafathSignUpS(1)
  \/ NafathInsertS(1)
  \/ NafathUpdateS(1)
  \/ \E id \in UserIds, f \in EmailUpdates : UpdateProfileS(id, f)

SpecRollback == (InitSupabase \/ InitLegacy) /\ [][NextRollback]_vars

(***************************************************************************)
(* Access: profiles of every kind, bearer tokens, the user routes          *)
(***************************************************************************)
\* the Authorization headers: none, a token with a bad signature, an
\* expired token, a good token of each subject
BearerTokens ==
  {Undefined}
  \cup {Some([signature |-> "invalid", expired |-> FALSE, id |-> 1]),
        Some([signature |-> "valid", expired |-> TRUE, id |-> 1])}
  \cup {Some([signature |-> "valid", expired |-> FALSE, id |-> i]) : i \in UserIds}

NextAccess ==
  \/ \E kind \in UserTypes :
        \E raw \in RollbackBodies(kind) : RegisterCheckS(1, kind, raw)
  \/ RegisterSignUpS(1)
  \/ RegisterInsertS(1)
  \/ \E id \in UserIds : DeactivateS(id)
  \/ \E a \in BearerTokens, route \in Routes : ProtectS(1, a, route)
  \/ \E route \in Routes : \E body \in RequestBodies(route) : HandleS(1, body)

SpecAccess == InitSupabase /\ [][NextAccess]_vars

C2_ExpiredFailsLikeBogus ==
  [][\A s \in Slots, t \in Tokens :
       (/\ resetGhostM(users, t, now).case \in {"expired", "bogus"}
        /\ ResetFindM(s, t, "N3wPassw0rd!"))
         => /\ resp'.status = InvalidOrExpiredToken.status
            /\ resp'.body = InvalidOrExpiredToken.body
            /\ resp'.op = "resetPassword"
            /\ inflight' = inflight
            /\ users' = users]_vars

\* a genuine token was presented at or after its expiry and refused
C2_Witness ==
  /\ resp.op = "resetPassword"
  /\ resp.ghost.case = "expired"
  /\ \E d \in users :
        /\ d.resetPasswordToken = Some(sha256(resp.ghost.token))
        /\ The(d.resetPasswordExpire) <= now
  /\ resp.status = 400

(***************************************************************************)
(* Properties of login and of the profiles sent to clients                 *)
(***************************************************************************)
\* C3: a login with a registered address and a wrong password and a login
\* with an address no profile and no identity holds get the same status and
\* the same body: 401 {success: false, message: 'Invalid credentials'}.
C3_LoginFailuresIndistinguishable ==
  (resp.op = "login" /\ resp.ghost.case \in {"noSuchEmail", "wrongPassword"})
    => /\ resp.status = 401
       /\ resp.body = [success |-> FALSE, message |-> "Invalid credentials"]

\* a login with a registered address and a wrong password was refused
C3_Witness ==
  /\ resp.op = "login"
  /\ resp.ghost.case = "wrongPassword"
  /\ resp.status = 401
  /\ users # {} \/ pgUsers # {}

\* the fields of a profile that must not leave the server
SecretFields ==
  {"password", "password_hash", "verificationToken", "resetPasswordToken"}

carriesSecret(body) ==
  /\ "user" \in DOMAIN body
  /\ \E f \in DOMAIN body.user \cap SecretFields : IsDefined(body.user[f])

\* C10: no response that returns a profile carries the profile's password
\* hash, its verification token or its reset token.
C10_NoSecretInResponse == ~carriesSecret(resp.body)

(***************************************************************************)
(* Properties of registration                                              *)
(***************************************************************************)
\* the 409 of a duplicate registration that names the field
namesField(r, field) ==
  /\ r.status = 409
  /\ r.body.message = noun(r.ghost.kind) \o " with this " \o field \o " already exists"

\* C6: a valid registration of any kind whose email a profile already holds
\* and whose phone no profile holds is answered 409 naming 'email'; one
\* whose phone a profile already holds and whose email no profile holds is
\* answered 409 naming 'phone'.
C6_ConflictNamesField ==
  (resp.op = "register" /\ resp.ghost.valid)
    => /\ (resp.ghost.emailHeld /\ ~resp.ghost.phoneHeld) => namesField(resp, "email")
       /\ (resp.ghost.phoneHeld /\ ~resp.ghost.emailHeld) => namesField(resp, "phone")

\* the 409 a sequential duplicate registration gets on the deployed controller
sequentialConflict(kind, field) ==
  IF backend = "mongoose" THEN conflictResponseM(kind, field)
  ELSE conflictResponseS(kind, field)

\* C7: a registration that passed the uniqueness check and then finds its
\* email or phone taken by a concurrent registration creates no profile and
\* is answered with the 409 of a sequential duplicate registration.
C7_RaceLoserGetsConflict ==
  (resp.op = "register" /\ resp.ghost.lostRaceOn # {})
    => \E f \in resp.ghost.lostRaceOn :
         /\ resp.status = 409
         /\ resp.body = sequentialConflict(resp.ghost.kind, f).body

\* the profile stored under an id, as a set: on either controller
storedProfile(docs, rows, id) ==
  {[isVerified |-> d.isVerified, isActive |-> d.isActive] : d \in {x \in docs : x._id = id}}
  \cup
  {[isVerified |-> r.is_verified, isActive |-> r.is_active = Some(TRUE)] :
     r \in {x \in rows : x.id = id}}

\* C9: when a registration of any kind succeeds, the response carries no
\* password hash and the profile stored under the new id has
\* isVerified = false and isActive = true at that moment.
C9_FreshProfileUnverified ==
  [][\A s \in Slots :
       (inflight[s].op = "register" /\ inflight'[s] = Idle /\ resp'.status = 201)
         => /\ ~carriesSecret(resp'.body)
            /\ storedProfile(users', pgUsers', resp'.body.user.id)
                 = {[isVerified |-> FALSE, isActive |-> TRUE]}]_vars

(***************************************************************************)
(* Properties of the identity-federation callback and of the directory     *)
(***************************************************************************)
\* C4: a callback with verified = false creates and modifies no profile
\* and no identity, and is answered 401.
C4_UnverifiedCallbackChangesNothing ==
  [][(resp' # resp /\ resp'.op = "nafathCallback" /\ ~resp'.ghost.verified)
       => /\ resp'.status = 401
          /\ users' = users
          /\ pgUsers' = pgUsers
          /\ authUsers' = authUsers]_vars

\* the profiles linked to an external identity
linkedTo(docs, rows, nafathId) ==
  {[id |-> d._id, kind |-> d.userType] : d \in {x \in docs : x.nafathId = Some(nafathId)}}
  \cup
  {[id |-> r.id, kind |-> r.user_type] : r \in {x \in rows : x.nafath_id = Some(nafathId)}}

\* C5: a callback with verified = true for an identity no profile holds
\* creates exactly one profile, a customer linked to that identity; one for
\* an identity a profile holds updates that profile and creates none.
C5_CallbackIdempotent ==
  [][(resp' # resp /\ resp'.op = "nafathCallback" /\ resp'.ghost.verified)
       => LET n == resp'.ghost.nafathId
              before == Cardinality(users) + Cardinality(pgUsers)
              after == Cardinality(users') + Cardinality(pgUsers')
          IN /\ resp'.status = 200
             /\ Cardinality(linkedTo(users', pgUsers', n)) = 1
             /\ IF resp'.ghost.idHeld
                  THEN /\ after = before
                       /\ linkedTo(users', pgUsers', n) = linkedTo(users, pgUsers, n)
                  ELSE /\ after = before + 1
                       /\ \A p \in linkedTo(users', pgUsers', n) : p.kind = "customer"]_vars

\* C8: no two distinct profiles share an email, and no two share a phone.
C8_EmailAndPhoneUnique ==
  /\ \A d, e \in users :
        d._id # e._id => (d.email # e.email /\ d.phone # e.phone)
  /\ \A r, q \in pgUsers :
        r.id # q.id => (r.email # q.email /\ r.phone # q.phone)

(***************************************************************************)
(* Properties of the rollback of a failed registration                     *)
(***************************************************************************)
\* C11: in register, registerShop and registerFamily of the Supabase
\* controller, when the auth identity was created and the handler ends with
\* an error response, a delete of that identity was attempted before the
\* response was sent.
C11_CleanupAttempted ==
  (backend = "supabase" /\ resp.op = "register" /\ resp.status >= 400
     /\ resp.ghost.identity # 0)
    => resp.ghost.cleanup \in DeleteOutcomes

\* a registration whose password hashing failed after signUp was answered
\* 500 once the delete of its identity had been attempted
C11_Witness ==
  /\ backend = "supabase"
  /\ resp.op = "register"
  /\ resp.ghost.fault = "hashError"
  /\ resp.ghost.identity # 0
  /\ resp.ghost.cleanup = "deleted"
  /\ resp.status = 500

\* the response the handler gives for a failure when the delete succeeds
originalFailure(kind, code) ==
  IF backend = "legacy" THEN cleanupResponseL("deleted")
  ELSE cleanupResponseS(kind, code, "deleted")

\* C12: when the compensating delete of the identity itself fails, the
\* caller receives the response of the original failure, the one sent when
\* the delete succeeds; the failure of the cleanup does not replace it.
C12_CleanupFailureNotMasking ==
  [][\A s \in Slots :
       (inflight[s].op = "register" /\ inflight[s].pc = "cleanup"
          /\ inflight'[s] = Idle /\ resp'.ghost.cleanup \in {"error", "thrown"})
         => /\ resp'.status = originalFailure(inflight[s].kind, inflight[s].code).status
            /\ resp'.body = originalFailure(inflight[s].kind, inflight[s].code).body]_vars

\* the identities that have no profile row
orphans(identities, rows) ==
  {a.id : a \in {x \in identities : ~\E r \in rows : r.id = x.id}}

\* C13: a registration or a new-user callback of the Supabase controller
\* that created an identity and returns an error leaves no identity of its
\* own without a profile, unless its compensating delete failed.
C13_NoOrphanIdentity ==
  [][\A s \in Slots :
       (backend = "supabase"
          /\ inflight[s].op \in {"register", "nafathCallback"}
          /\ inflight[s].pc \in {"insert", "cleanup", "answer"}
          /\ inflight'[s] = Idle /\ resp'.status >= 400
          /\ ~(inflight[s].op = "register"
                 /\ resp'.ghost.cleanup \in {"error", "thrown"}))
         => inflight[s].id \notin orphans(authUsers', pgUsers')]_vars

(***************************************************************************)
(* Properties of validation                                                *)
(***************************************************************************)
\* C14: a registration whose payload fails validation, in the route's
\* chains or in ValidationUtils, is answered 400 with the itemized errors
\* and writes nothing: no identity is created, no profile inserted or changed.
C14_InvalidPayloadWritesNothing ==
  [][(resp' # resp /\ resp'.op = "register" /\ ~resp'.ghost.valid)
       => /\ resp'.status = 400
          /\ resp'.body.errors # {}
          /\ users' = users
          /\ authUsers' = authUsers
          /\ pgUsers' = pgUsers]_vars

\* a family registration whose size is a string passed the route's chains,
\* was refused by ValidationUtils, with profiles already stored
C14_Witness ==
  /\ resp.op = "register"
  /\ ~resp.ghost.valid
  /\ resp.status = 400
  /\ "errorCode" \in DOMAIN resp.body
  /\ resp.body.errors = {"Family size is required and must be a number"}
  /\ pgUsers # {}

(***************************************************************************)
(* Properties of the login of a deactivated profile                        *)
(***************************************************************************)
\* C15: a login with the email and the correct password of a profile whose
\* isActive is false is answered 401 'Account is deactivated', and no
\* session token is issued or returned for that profile.
C15_DeactivatedLoginRefused ==
  (resp.op = "login" /\ resp.ghost.case = "credentialsOk" /\ ~resp.ghost.active)
    => /\ resp.status = 401
       /\ resp.body = [success |-> FALSE, message |-> "Account is deactivated"]
       /\ ~resp.ghost.issued

\* a deactivated profile was refused with the distinct message
C15_Witness ==
  /\ resp.op = "login"
  /\ resp.ghost.case = "credentialsOk"
  /\ ~resp.ghost.active
  /\ resp.status = 401
  /\ resp.body.message = "Account is deactivated"

(***************************************************************************)
(* Callers: customers who log in and then use the routes behind protect    *)
(***************************************************************************)
NextCallers ==
  \/ \E raw \in AccountBodies : RegisterCheckS(1, "customer", raw)
  \/ RegisterSignUpS(1)
  \/ RegisterInsertS(1)
  \/ \E raw \in LoginBodies : LoginS(raw)
  \/ \E a \in BearerTokens, route \in AuthRoutes : ProtectS(1, a, route)
  \/ GetMeAsS(1)
  \/ LogoutS(1)
  \/ \E cur \in Passwords : UpdatePasswordS(1, cur, "N3wPassw0rd!")

SpecCallers == InitSupabase /\ [][NextCallers]_vars

(***************************************************************************)
(* Flows: nafathAuth and nafathCallback for known and unknown addresses    *)
(***************************************************************************)
NafathAuthBodies ==
  [nafathId : {Undefined} \cup {Some(n) : n \in NafathIds},
   transactionId : {Undefined, Some("tx-1")}]

NextFlows ==
  \/ \E raw \in AccountBodies : RegisterCheckM(1, "customer", raw)
  \/ RegisterCreateM(1)
  \/ RegisterSaveM(1)
  \/ \E body \in NafathAuthBodies : NafathAuthM(body)
  \/ \E n \in NafathIds, v \in BOOLEAN, u \in NafathUserData : NafathFindM(1, n, v, u)
  \/ NafathSaveM(1)
  \/ \E body \in NafathAuthBodies : NafathAuthS(body)
  \/ \E n \in NafathIds, v \in BOOLEAN, u \in NafathUserData : NafathFindS(1, n, v, u)
  \/ NafathSignUpS(1)
  \/ NafathInsertS(1)
  \/ NafathUpdateS(1)

SpecFlows == Init /\ [][NextFlows]_vars

(***************************************************************************)
(* Verification: customers, verifyEmail, resendVerification                *)
(***************************************************************************)
OtpTypes == {"email", "signup"}

NextVerification ==
  \/ \E raw \in AccountBodies : RegisterCheckM(1, "customer", raw)
  \/ RegisterCreateM(1)
  \/ RegisterSaveM(1)
  \/ \E t \in Tokens : VerifyEmailM(t)
  \/ \E e \in Emails : ResendVerificationM(e)
  \/ \E raw \in AccountBodies : RegisterCheckS(1, "customer", raw)
  \/ RegisterSignUpS(1)
  \/ RegisterInsertS(1)
  \/ \E t \in Tokens, type \in OtpTypes : VerifyEmailS(t, type)
  \/ \E e \in Emails : ResendVerificationS(e)

SpecVerification == Init /\ [][NextVerification]_vars

(***************************************************************************)
(* Shops: registerShop with and without a commercial registration, then    *)
(* the profile routes                                                      *)
(***************************************************************************)
ShopBodies ==
  {[b EXCEPT !.businessInfo = [businessName |-> Some("biz"),
                               commercialRegistration |-> cr]] :
     b \in AccountBodies, cr \in {Undefined, Some("1010000001")}}

NextShops ==
  \/ \E raw \in ShopBodies : RegisterCheckS(1, "shop", raw)
  \/ RegisterSignUpS(1)
  \/ RegisterInsertS(1)
  \/ \E a \in BearerTokens, route \in {"profile", "profile/business"} :
        ProtectS(1, a, route)
  \/ \E route \in Routes : \E body \in RequestBodies(route) : HandleS(1, body)

SpecShops == InitSupabase /\ [][NextShops]_vars

(***************************************************************************)
(* Kinds: profiles of every kind and the operations on existing profiles   *)
(***************************************************************************)
\* one registered profile, of any kind, and one that a callback creates
NextKinds ==
  \/ \E kind \in UserTypes :
        \E raw \in {b \in RollbackBodies(kind) : b.email = "a@x.sa"} :
           RegisterCheckS(1, kind, raw)
  \/ RegisterSignUpS(1)
  \/ RegisterInsertS(1)
  \/ LoginS([email |-> "a@x.sa", password |-> "Passw0rd!"])
  \/ \E route \in Routes \cup {"update-password"} :
        ProtectS(1, Some([signature |-> "valid", expired |-> FALSE, id |-> 1]), route)
  \/ \E route \in Routes : \E body \in RequestBodies(route) : HandleS(1, body)
  \/ UpdatePasswordS(1, "Passw0rd!", "N3wPassw0rd!")
  \/ ResendVerificationS("a@x.sa")
  \/ \E t \in Tokens : VerifyEmailS(t, "email")
  \/ \E u \in {d \in NafathUserData : d.email = "b@x.sa"} :
        NafathFindS(1, "1000000001", TRUE, u)
  \/ NafathSignUpS(1)
  \/ NafathInsertS(1)
  \/ NafathUpdateS(1)

SpecKinds == InitSupabase /\ [][NextKinds]_vars

(***************************************************************************)
(* The password flows of both controllers: forgotPassword, resetPassword,  *)
(* updatePassword after a registration and a login                         *)
(***************************************************************************)
\* the token pairs a reset-password body may carry
SessionTokens == [user : UserIds, via : {"login", "recovery"}]

NextCredentials ==
  \/ \E raw \in AccountBodies : RegisterCheckM(1, "customer", raw)
  \/ RegisterCreateM(1)
  \/ RegisterSaveM(1)
  \/ \E e \in Emails : ForgotPasswordM(e)
  \/ \E s \in Slots, t \in Tokens : ResetFindM(s, t, "N3wPassw0rd!")
  \/ \E s \in Slots : ResetSaveM(s)
  \/ \E id \in UserIds, cur \in Passwords : UpdatePasswordM(id, cur, "N3wPassw0rd!")
  \/ Tick
  \/ \E raw \in AccountBodies : RegisterCheckS(1, "customer", raw)
  \/ RegisterSignUpS(1)
  \/ RegisterInsertS(1)
  \/ \E raw \in LoginBodies : LoginS(raw)
  \/ \E e \in Emails : ForgotPasswordS(e)
  \/ \E session \in SessionTokens : ResetPasswordS("N3wPassw0rd!", session)
  \/ \E i \in UserIds :
        ProtectS(1, Some([signature |-> "valid", expired |-> FALSE, id |-> i]),
                 "update-password")
  \/ \E cur \in Passwords : UpdatePasswordS(1, cur, "N3wPassw0rd!")

SpecCredentials == Init /\ [][NextCredentials]_vars

(***************************************************************************)
(* Properties of protect and authorize                                     *)
(***************************************************************************)
\* C16: a handler behind protect runs only for a request whose bearer token
\* verifies and whose subject is an existing profile with is_active = true;
\* every other request is answered 401 and the handler does not run.
C16_ProtectGuardsHandler ==
  resp.op = "protected"
    => LET admitted == resp.ghost.verifies /\ resp.ghost.subjectActive
       IN /\ resp.ghost.ran => admitted
          /\ ~admitted => (resp.status = 401 /\ ~resp.ghost.ran)

\* a good token of a deactivated profile was refused
C16_Witness ==
  /\ resp.op = "protected"
  /\ resp.ghost.verifies
  /\ resp.ghost.subjectExists
  /\ ~resp.ghost.subjectActive
  /\ resp.status = 401

\* C17: a handler behind authorize(roles) runs only when the kind of the
\* authenticated profile is one of the roles; otherwise the answer is 403,
\* the handler does not run and nothing stored changes.
C17_AuthorizeGuardsHandler ==
  [][\A s \in Slots :
       (inflight[s].op = "protected" /\ inflight[s].pc = "next"
          /\ inflight[s].route \in Routes \ {"profile"} /\ inflight'[s] = Idle)
         => LET allowed == inflight[s].user.user_type \in roles(inflight[s].route)
            IN /\ resp'.ghost.ran => allowed
               /\ ~allowed => /\ resp'.status = 403
                              /\ ~resp'.ghost.ran
                              /\ pgUsers' = pgUsers
                              /\ authUsers' = authUsers]_vars

\* a shop owner was refused on the route of the productive families
C17_Witness ==
  /\ resp.op = "protected"
  /\ resp.ghost.route = "profile/family"
  /\ resp.ghost.kind = "shop"
  /\ resp.ghost.verifies /\ resp.ghost.subjectActive
  /\ resp.status = 403
  /\ ~resp.ghost.ran

(***************************************************************************)
(* Properties of the handlers behind protect                               *)
(***************************************************************************)
\* C18: requests do not influence each other through in-process state:
\* whatever other requests logged in, registered or logged out before,
\* getMe returns the profile of the subject of the bearer token of its own
\* request, and updatePassword and logout act on that subject's account only.
C18_ActsOnTokenSubject ==
  (resp.op = "protected" /\ resp.ghost.route \in AuthRoutes /\ resp.ghost.ran)
    => resp.ghost.actedOn \subseteq {resp.ghost.subject}

(***************************************************************************)
(* Properties of the Nafath flow                                           *)
(***************************************************************************)
\* C19: the Nafath flow moves initiated -> pending -> verified | failed: a
\* callback is answered, verified (profile created or updated, session
\* issued) or failed, only for a Nafath id that an earlier nafathAuth call
\* had put into pending.
C19_CallbackNeedsPendingFlow ==
  (resp.op = "nafathCallback" /\ resp.status \in {200, 401})
    => resp.ghost.pending

\* C20: nafathAuth never changes a profile: whatever the body holds, and
\* whether or not a profile already has the Nafath id, the profiles and the
\* identities after the call are those before it; with both ids present the
\* answer is 200 with status "pending".
C20_InitiateChangesNoProfile ==
  [][(resp'.op = "nafathAuth" /\ inflight' = inflight)
       => /\ users' = users
          /\ pgUsers' = pgUsers
          /\ authUsers' = authUsers
          /\ resp'.ghost.bothPresent
               => (resp'.status = 200 /\ resp'.body.data.status = "pending")]_vars

\* nafathAuth was called for a Nafath id that a profile already holds
C20_Witness ==
  /\ resp.op = "nafathAuth"
  /\ resp.ghost.bothPresent
  /\ resp.ghost.idHeld
  /\ resp.status = 200

C23_RedemptionEffects ==
  [][\A s \in Slots :
       (inflight[s].op = "resetPassword" /\ inflight[s].pc = "save"
          /\ inflight'[s] = Idle)
         => LET r == inflight[s]
                old == {d \in users : d._id = r.user._id}
                new == {d \in users' : d._id = r.user._id}
            IN /\ old # {} /\ new # {}
               /\ comparePassword(The(new), r.password)
               /\ \A p \in Passwords \ {r.password} : ~comparePassword(The(new), p)
               /\ The(new) = [The(old) EXCEPT !.password = The(new).password,
                                              !.resetPasswordToken = Undefined,
                                              !.resetPasswordExpire = Undefined]
               /\ users' \ new = users \ old
               /\ resp'.status = 200
               /\ resp'.body.token = generateToken(r.user._id)]_vars

\* a profile registered with one password was reset to another
C23_Witness ==
  /\ resp.op = "resetPassword"
  /\ resp.status = 200
  /\ \E d \in users : /\ d._id = resp.body.user.id
                      /\ comparePassword(d, "N3wPassw0rd!")
                      /\ ~comparePassword(d, "Passw0rd!")
                      /\ d.resetPasswordToken = Undefined
                      /\ d.resetPasswordExpire = Undefined

\* every profile has both reset fields or neither, and a stored
\* resetPasswordToken is the digest of a raw token that was drawn, never a
\* raw token itself
resetFieldsPaired ==
  \A d \in users :
    /\ IsDefined(d.resetPasswordToken) <=> IsDefined(d.resetPasswordExpire)
    /\ IsDefined(d.resetPasswordToken)
         => /\ \E t \in 1 .. rand : The(d.resetPasswordToken) = sha256(t)
            /\ The(d.resetPasswordToken) \notin 1 .. rand

\* a forgotPassword that answers 200 has stored the digest of the token it
\* hands out with an expiry ten minutes after now
forgotSetsBoth ==
  (resp' # resp /\ resp'.op = "forgotPassword" /\ resp'.status = 200)
    => \E d \in users' :
         /\ d.resetPasswordToken = Some(sha256(resp'.ghost.token))
         /\ d.resetPasswordExpire = Some(now + 10 * 60 * 1000)

\* a resetPassword that answers 200 leaves its profile without both fields
resetClearsBoth ==
  (resp' # resp /\ resp'.op = "resetPassword" /\ resp'.status = 200)
    => \A d \in users' :
         d._id = resp'.body.user.id
           => (d.resetPasswordToken = Undefined /\ d.resetPasswordExpire = Undefined)

\* C24: in every reachable state each profile's resetPasswordToken and
\* resetPasswordExpire are both null or both set, and a stored token is the
\* one-way hash of the raw token handed out, never the raw token;
\* forgotPassword sets both (expiry = now + 10 minutes), resetPassword
\* clears both.
C24_ResetFieldsPaired ==
  /\ []resetFieldsPaired
  /\ [][forgotSetsBoth /\ resetClearsBoth]_vars

\* a profile holds a digest and an expiry that forgotPassword just stored
C24_Witness ==
  /\ resp.op = "forgotPassword"
  /\ resp.status = 200
  /\ \E d \in users : /\ d.resetPasswordToken = Some(sha256(resp.ghost.token))
                      /\ IsDefined(d.resetPasswordExpire)

(***************************************************************************)
(* Properties of the stored profiles                                       *)
(***************************************************************************)
\* C25: in every reachable state a profile of kind shop has a business name
\* and a commercial registration number: registerShop without a commercial
\* registration is refused with 400 and creates nothing, and no later
\* operation (updateBusinessInfo, updateProfile) nulls either field.
C25_ShopFieldsPresent ==
  /\ \A r \in pgUsers :
       r.user_type = "shop"
         => (IsDefined(r.business_name) /\ IsDefined(r.commercial_registration))
  /\ (resp.op = "register" /\ resp.ghost.kind = "shop" /\ ~resp.ghost.valid)
       => resp.status = 400

\* C26: in every reachable state, after any interleaving of Nafath
\* callbacks and registrations, no two distinct profiles hold the same
\* non-null Nafath id.
C26_NafathIdUnique ==
  /\ \A d1, d2 \in users :
       (IsDefined(d1.nafathId) /\ d1.nafathId = d2.nafathId) => d1._id = d2._id
  /\ \A r1, r2 \in pgUsers :
       (IsDefined(r1.nafath_id) /\ r1.nafath_id = r2.nafath_id) => r1.id = r2.id

\* C27: the kind of a profile is fixed at creation: no operation (login,
\* resetPassword, updatePassword, verifyEmail, nafathCallback on an existing
\* profile, updateProfile, updateBusinessInfo, updateFamilyInfo) changes the
\* kind of an existing profile.
C27_KindImmutable ==
  [][/\ \A d \in users : \A e \in users' : e._id = d._id => e.userType = d.userType
     /\ \A r \in pgUsers : \A q \in pgUsers' : q.id = r.id => q.user_type = r.user_type]_vars

\* a shop's business info was updated and the answer still names a shop
C27_Witness ==
  /\ resp.op = "protected"
  /\ resp.ghost.route = "profile/business"
  /\ resp.status = 200
  /\ resp.body.data.user_type = "shop"
  /\ resp.body.data.business_name = Some("new biz")

\* C28: when two resetPassword requests present the same valid, unexpired
\* token concurrently (the lookup and the save are separate store calls),
\* at most one sets a password and gets a session; the other is answered
\* with the 'Invalid or expired token' error.
C28_ConcurrentRedemptionOnce ==
  [][\A s \in Slots :
       (/\ inflight[s].op = "resetPassword" /\ inflight[s].pc = "save"
        /\ inflight'[s] = Idle
        /\ inflight[s].ghost.token \in redeemed)
         => /\ resp'.status = InvalidOrExpiredToken.status
            /\ resp'.body = InvalidOrExpiredToken.body
            /\ users' = users]_vars

\* the step is a resetPassword that presents a token issued by forgotPassword
\* for the profile and neither expired nor redeemed when the password is set
redeemsFor(id) ==
  \/ /\ resp'.op = "resetPassword" /\ resp' # resp
     /\ backend = "supabase"
     /\ resp'.ghost.via = "recovery"
     /\ resp'.ghost.user = id
  \/ \E s \in Slots :
        /\ inflight[s].op = "resetPassword" /\ inflight[s].pc = "save"
        /\ inflight'[s] = Idle
        /\ inflight[s].user._id = id
        /\ inflight[s].ghost.token \notin redeemed
        /\ \E d \in users : /\ d._id = id
                            /\ d.resetPasswordToken = Some(sha256(inflight[s].ghost.token))
                            /\ The(d.resetPasswordExpire) > now

\* the step is an updatePassword that presented the profile's current password
updatesFor(id) ==
  \/ /\ resp'.op = "updatePassword" /\ resp'.ghost.case = "updated"
  \/ /\ resp'.op = "protected" /\ resp'.ghost.route = "update-password"
     /\ resp'.ghost.actedOn = {id}

\* C29: a profile's stored password changes only through resetPassword with
\* a reset token issued by forgotPassword for that profile, not yet expired
\* or redeemed, or through updatePassword with the profile's correct current
\* password; updatePassword with a wrong current password answers 401 and
\* changes nothing; a login session alone never sets a new password.
C29_PasswordChangesOnlyByProof ==
  [][/\ \A a \in authUsers : \A b \in authUsers' :
           (b.id = a.id /\ b.password # a.password)
              => redeemsFor(a.id) \/ updatesFor(a.id)
     /\ \A d \in users : \A e \in users' :
           (e._id = d._id /\ e.password # d.password)
              => redeemsFor(d._id) \/ updatesFor(d._id)
     /\ (resp' # resp /\ resp'.op = "updatePassword" /\ resp'.ghost.case = "wrongCurrent")
           => resp'.status = 401 /\ users' = users
     /\ \A s \in Slots :
           (/\ inflight[s].op = "protected" /\ inflight[s].pc = "next"
            /\ inflight[s].route = "update-password"
            /\ inflight'[s] = Idle
            /\ resp'.body = Plain(401, FALSE, "Current password is incorrect").body)
              => resp'.status = 401 /\ authUsers' = authUsers]_vars

\* the raw tokens drawn so far whose digest a profile of coll stores
heldBy(coll) ==
  {t \in 1 .. rand : \E d \in coll : d.resetPasswordToken = Some(sha256(t))}

\* a second forgotPassword replaces the stored digest: the earlier token
\* matches no profile any more, the new one matches the profile
forgotSupersedes ==
  (resp' # resp /\ resp'.op = "forgotPassword" /\ resp'.status = 200)
    => LET T2 == resp'.ghost.token
           d2 == findByResetToken(users', T2, now)
       IN /\ IsDefined(d2)
          /\ \A d \in users :
                d._id = The(d2)._id
                  => \A T1 \in heldBy({d}) :
                        /\ T1 # T2
                        /\ ~IsDefined(findByResetTokenOnly(users', T1, now))

\* a token that matches no profile is never stored again
supersededStaysOut ==
  \A t \in 1 .. rand : t \notin heldBy(users) => t \notin heldBy(users')

\* resetPassword refuses a token that matches no profile and accepts the
\* one a profile holds before its expiry
resetFollowsStoredToken ==
  /\ \A s \in Slots, t \in Tokens :
        ResetFindM(s, t, "N3wPassw0rd!")
          => IF t \in heldBy(users) /\ IsDefined(findByResetToken(users, t, now))
               THEN /\ inflight'[s].op = "resetPassword" /\ inflight'[s].pc = "save"
                    /\ inflight'[s].user.resetPasswordToken = Some(sha256(t))
             ELSE /\ resp'.status = InvalidOrExpiredToken.status
                  /\ resp'.body = InvalidOrExpiredToken.body
                  /\ inflight' = inflight
                  /\ users' = users
  /\ \A s \in Slots :
        (inflight[s].op = "resetPassword" /\ inflight[s].pc = "save"
           /\ inflight'[s] = Idle)
          => resp'.status = 200 /\ resp'.body.success

\* C30: forgotPassword supersedes: after forgotPassword was called twice for
\* the same address, yielding raw tokens T1 then T2, resetPassword with T1
\* fails with 'Invalid or expired token' while resetPassword with T2, before
\* its expiry, succeeds.
C30_ForgotSupersedes ==
  [][forgotSupersedes /\ supersededStaysOut /\ resetFollowsStoredToken]_vars

\* the only profile was sent two reset tokens; the first one, never
\* redeemed, was presented and refused while the profile holds the second
C30_Witness ==
  /\ resp.op = "resetPassword"
  /\ resp.status = 400
  /\ resp.ghost.case = "bogus"
  /\ resp.ghost.token \in (1 .. rand) \ redeemed
  /\ Cardinality(users) = 1
  /\ \A d \in users :
        /\ d.verificationToken # Some(resp.ghost.token)
        /\ resp.ghost.token # 1
        /\ \E T2 \in heldBy({d}) :
              /\ T2 > resp.ghost.token
              /\ IsDefined(findByResetToken(users, T2, now))

====
